---- MODULE Spec2Model ----
(***************************************************************************)
(* Model of the collision dispatch kernel of fcl:                          *)
(*   - the construction of CollisionFunctionMatrix (collision_matrix),     *)
(*   - the handlers stored in its cells (ShapeShapeCollide,                *)
(*     BVHShapeCollider::collide, orientedBVHShapeCollide, BVHCollide,     *)
(*     the octree handlers) with their early exit, traversal and           *)
(*     approximate-cost second pass.                                       *)
(* The traversal driver, the narrow-phase solver, CollisionRequest and     *)
(* CollisionResult live outside the modelled headers; they are modelled    *)
(* from their documented behaviour.                                        *)
(***************************************************************************)
EXTENDS Integers, Sequences, FiniteSets, TLC

\* ------------------------------------------------------------------------
\* Bounds of the model
\* ------------------------------------------------------------------------
\* largest num_max_contacts a caller asks for, and largest number of
\* contacts already in the caller's result
MaxContacts == 2
\* largest num_max_cost_sources a caller asks for, and largest number of
\* cost sources already in the caller's result
MaxCostSources == 1
\* largest number of intersecting leaf pairs one traversal meets
MaxLeafHits == 2

\* ------------------------------------------------------------------------
\* Node kinds
\* ------------------------------------------------------------------------
\* the nine primitive shape tags
Shapes ==
  <<"GEOM_BOX", "GEOM_SPHERE", "GEOM_ELLIPSOID", "GEOM_CAPSULE", "GEOM_CONE",
    "GEOM_CYLINDER", "GEOM_CONVEX", "GEOM_PLANE", "GEOM_HALFSPACE">>

\* the eight mesh tags, one per BV type
BVs ==
  <<"BV_AABB", "BV_OBB", "BV_RSS", "BV_KDOP16", "BV_KDOP18", "BV_KDOP24",
    "BV_kIOS", "BV_OBBRSS">>

\* the closed tag set, in declaration order
NodeKind == Shapes \o <<"GEOM_OCTREE">> \o BVs

NODE_COUNT == Len(NodeKind)

Range(s) == {s[i] : i \in DOMAIN s}

ShapeTags == Range(Shapes)
BVTags == Range(BVs)
Tags == Range(NodeKind)

\* the concrete geometry type a tag denotes
TypeOf(t) ==
  CASE t = "GEOM_BOX" -> "Box<S>"
    [] t = "GEOM_SPHERE" -> "Sphere<S>"
    [] t = "GEOM_ELLIPSOID" -> "Ellipsoid<S>"
    [] t = "GEOM_CAPSULE" -> "Capsule<S>"
    [] t = "GEOM_CONE" -> "Cone<S>"
    [] t = "GEOM_CYLINDER" -> "Cylinder<S>"
    [] t = "GEOM_CONVEX" -> "Convex<S>"
    [] t = "GEOM_PLANE" -> "Plane<S>"
    [] t = "GEOM_HALFSPACE" -> "Halfspace<S>"
    [] t = "GEOM_OCTREE" -> "OcTree<S>"
    [] t = "BV_AABB" -> "AABB<S>"
    [] t = "BV_OBB" -> "OBB<S>"
    [] t = "BV_RSS" -> "RSS<S>"
    [] t = "BV_KDOP16" -> "KDOP<S, 16>"
    [] t = "BV_KDOP18" -> "KDOP<S, 18>"
    [] t = "BV_KDOP24" -> "KDOP<S, 24>"
    [] t = "BV_kIOS" -> "kIOS<S>"
    [] t = "BV_OBBRSS" -> "OBBRSS<S>"

\* ------------------------------------------------------------------------
\* The cells of the matrix
\* ------------------------------------------------------------------------
\* a function pointer to the instantiation fn<targs..., NarrowPhaseSolver>
Handler(fn, targs) == [fn |-> fn, targs |-> targs]

\* the empty sentinel
NULL == Handler("NULL", <<>>)

\* storage the constructor has not written yet
UNINIT == Handler("UNINIT", <<>>)

\* ------------------------------------------------------------------------
\* The assignments of the constructor, in source order:
\* <<row tag, column tag, function template, template arguments>>
\* ------------------------------------------------------------------------
\* collision_matrix[shape][shape] = &ShapeShapeCollide<...>
ShapeShapeAssignments ==
  <<
    <<"GEOM_BOX", "GEOM_BOX", "ShapeShapeCollide", <<"Box<S>", "Box<S>">>>>,
    <<"GEOM_BOX", "GEOM_SPHERE", "ShapeShapeCollide", <<"Box<S>", "Sphere<S>">>>>,
    <<"GEOM_BOX", "GEOM_ELLIPSOID", "ShapeShapeCollide", <<"Box<S>", "Ellipsoid<S>">>>>,
    <<"GEOM_BOX", "GEOM_CAPSULE", "ShapeShapeCollide", <<"Box<S>", "Capsule<S>">>>>,
    <<"GEOM_BOX", "GEOM_CONE", "ShapeShapeCollide", <<"Box<S>", "Cone<S>">>>>,
    <<"GEOM_BOX", "GEOM_CYLINDER", "ShapeShapeCollide", <<"Box<S>", "Cylinder<S>">>>>,
    <<"GEOM_BOX", "GEOM_CONVEX", "ShapeShapeCollide", <<"Box<S>", "Convex<S>">>>>,
    <<"GEOM_BOX", "GEOM_PLANE", "ShapeShapeCollide", <<"Box<S>", "Plane<S>">>>>,
    <<"GEOM_BOX", "GEOM_HALFSPACE", "ShapeShapeCollide", <<"Box<S>", "Halfspace<S>">>>>,
    <<"GEOM_SPHERE", "GEOM_BOX", "ShapeShapeCollide", <<"Sphere<S>", "Box<S>">>>>,
    <<"GEOM_SPHERE", "GEOM_SPHERE", "ShapeShapeCollide", <<"Sphere<S>", "Sphere<S>">>>>,
    <<"GEOM_SPHERE", "GEOM_ELLIPSOID", "ShapeShapeCollide", <<"Sphere<S>", "Ellipsoid<S>">>>>,
    <<"GEOM_SPHERE", "GEOM_CAPSULE", "ShapeShapeCollide", <<"Sphere<S>", "Capsule<S>">>>>,
    <<"GEOM_SPHERE", "GEOM_CONE", "ShapeShapeCollide", <<"Sphere<S>", "Cone<S>">>>>,
    <<"GEOM_SPHERE", "GEOM_CYLINDER", "ShapeShapeCollide", <<"Sphere<S>", "Cylinder<S>">>>>,
    <<"GEOM_SPHERE", "GEOM_CONVEX", "ShapeShapeCollide", <<"Sphere<S>", "Convex<S>">>>>,
    <<"GEOM_SPHERE", "GEOM_PLANE", "ShapeShapeCollide", <<"Sphere<S>", "Plane<S>">>>>,
    <<"GEOM_SPHERE", "GEOM_HALFSPACE", "ShapeShapeCollide", <<"Sphere<S>", "Halfspace<S>">>>>,
    <<"GEOM_ELLIPSOID", "GEOM_BOX", "ShapeShapeCollide", <<"Ellipsoid<S>", "Box<S>">>>>,
    <<"GEOM_ELLIPSOID", "GEOM_SPHERE", "ShapeShapeCollide", <<"Ellipsoid<S>", "Sphere<S>">>>>,
    <<"GEOM_ELLIPSOID", "GEOM_ELLIPSOID", "ShapeShapeCollide", <<"Ellipsoid<S>", "Ellipsoid<S>">>>>,
    <<"GEOM_ELLIPSOID", "GEOM_CAPSULE", "ShapeShapeCollide", <<"Ellipsoid<S>", "Capsule<S>">>>>,
    <<"GEOM_ELLIPSOID", "GEOM_CONE", "ShapeShapeCollide", <<"Ellipsoid<S>", "Cone<S>">>>>,
    <<"GEOM_ELLIPSOID", "GEOM_CYLINDER", "ShapeShapeCollide", <<"Ellipsoid<S>", "Cylinder<S>">>>>,
    <<"GEOM_ELLIPSOID", "GEOM_CONVEX", "ShapeShapeCollide", <<"Ellipsoid<S>", "Convex<S>">>>>,
    <<"GEOM_ELLIPSOID", "GEOM_PLANE", "ShapeShapeCollide", <<"Ellipsoid<S>", "Plane<S>">>>>,
    <<"GEOM_ELLIPSOID", "GEOM_HALFSPACE", "ShapeShapeCollide", <<"Ellipsoid<S>", "Halfspace<S>">>>>,
    <<"GEOM_CAPSULE", "GEOM_BOX", "ShapeShapeCollide", <<"Capsule<S>", "Box<S>">>>>,
    <<"GEOM_CAPSULE", "GEOM_SPHERE", "ShapeShapeCollide", <<"Capsule<S>", "Sphere<S>">>>>,
    <<"GEOM_CAPSULE", "GEOM_ELLIPSOID", "ShapeShapeCollide", <<"Capsule<S>", "Ellipsoid<S>">>>>,
    <<"GEOM_CAPSULE", "GEOM_CAPSULE", "ShapeShapeCollide", <<"Capsule<S>", "Capsule<S>">>>>,
    <<"GEOM_CAPSULE", "GEOM_CONE", "ShapeShapeCollide", <<"Capsule<S>", "Cone<S>">>>>,
    <<"GEOM_CAPSULE", "GEOM_CYLINDER", "ShapeShapeCollide", <<"Capsule<S>", "Cylinder<S>">>>>,
    <<"GEOM_CAPSULE", "GEOM_CONVEX", "ShapeShapeCollide", <<"Capsule<S>", "Convex<S>">>>>,
    <<"GEOM_CAPSULE", "GEOM_PLANE", "ShapeShapeCollide", <<"Capsule<S>", "Plane<S>">>>>,
    <<"GEOM_CAPSULE", "GEOM_HALFSPACE", "ShapeShapeCollide", <<"Capsule<S>", "Halfspace<S>">>>>,
    <<"GEOM_CONE", "GEOM_BOX", "ShapeShapeCollide", <<"Cone<S>", "Box<S>">>>>,
    <<"GEOM_CONE", "GEOM_SPHERE", "ShapeShapeCollide", <<"Cone<S>", "Sphere<S>">>>>,
    <<"GEOM_CONE", "GEOM_ELLIPSOID", "ShapeShapeCollide", <<"Cone<S>", "Ellipsoid<S>">>>>,
    <<"GEOM_CONE", "GEOM_CAPSULE", "ShapeShapeCollide", <<"Cone<S>", "Capsule<S>">>>>,
    <<"GEOM_CONE", "GEOM_CONE", "ShapeShapeCollide", <<"Cone<S>", "Cone<S>">>>>,
    <<"GEOM_CONE", "GEOM_CYLINDER", "ShapeShapeCollide", <<"Cone<S>", "Cylinder<S>">>>>,
    <<"GEOM_CONE", "GEOM_CONVEX", "ShapeShapeCollide", <<"Cone<S>", "Convex<S>">>>>,
    <<"GEOM_CONE", "GEOM_PLANE", "ShapeShapeCollide", <<"Cone<S>", "Plane<S>">>>>,
    <<"GEOM_CONE", "GEOM_HALFSPACE", "ShapeShapeCollide", <<"Cone<S>", "Halfspace<S>">>>>,
    <<"GEOM_CYLINDER", "GEOM_BOX", "ShapeShapeCollide", <<"Cylinder<S>", "Box<S>">>>>,
    <<"GEOM_CYLINDER", "GEOM_SPHERE", "ShapeShapeCollide", <<"Cylinder<S>", "Sphere<S>">>>>,
    <<"GEOM_CYLINDER", "GEOM_ELLIPSOID", "ShapeShapeCollide", <<"Cylinder<S>", "Ellipsoid<S>">>>>,
    <<"GEOM_CYLINDER", "GEOM_CAPSULE", "ShapeShapeCollide", <<"Cylinder<S>", "Capsule<S>">>>>,
    <<"GEOM_CYLINDER", "GEOM_CONE", "ShapeShapeCollide", <<"Cylinder<S>", "Cone<S>">>>>,
    <<"GEOM_CYLINDER", "GEOM_CYLINDER", "ShapeShapeCollide", <<"Cylinder<S>", "Cylinder<S>">>>>,
    <<"GEOM_CYLINDER", "GEOM_CONVEX", "ShapeShapeCollide", <<"Cylinder<S>", "Convex<S>">>>>,
    <<"GEOM_CYLINDER", "GEOM_PLANE", "ShapeShapeCollide", <<"Cylinder<S>", "Plane<S>">>>>,
    <<"GEOM_CYLINDER", "GEOM_HALFSPACE", "ShapeShapeCollide", <<"Cylinder<S>", "Halfspace<S>">>>>,
    <<"GEOM_CONVEX", "GEOM_BOX", "ShapeShapeCollide", <<"Convex<S>", "Box<S>">>>>,
    <<"GEOM_CONVEX", "GEOM_SPHERE", "ShapeShapeCollide", <<"Convex<S>", "Sphere<S>">>>>,
    <<"GEOM_CONVEX", "GEOM_ELLIPSOID", "ShapeShapeCollide", <<"Convex<S>", "Ellipsoid<S>">>>>,
    <<"GEOM_CONVEX", "GEOM_CAPSULE", "ShapeShapeCollide", <<"Convex<S>", "Capsule<S>">>>>,
    <<"GEOM_CONVEX", "GEOM_CONE", "ShapeShapeCollide", <<"Convex<S>", "Cone<S>">>>>,
    <<"GEOM_CONVEX", "GEOM_CYLINDER", "ShapeShapeCollide", <<"Convex<S>", "Cylinder<S>">>>>,
    <<"GEOM_CONVEX", "GEOM_CONVEX", "ShapeShapeCollide", <<"Convex<S>", "Convex<S>">>>>,
    <<"GEOM_CONVEX", "GEOM_PLANE", "ShapeShapeCollide", <<"Convex<S>", "Plane<S>">>>>,
    <<"GEOM_CONVEX", "GEOM_HALFSPACE", "ShapeShapeCollide", <<"Convex<S>", "Halfspace<S>">>>>,
    <<"GEOM_PLANE", "GEOM_BOX", "ShapeShapeCollide", <<"Plane<S>", "Box<S>">>>>,
    <<"GEOM_PLANE", "GEOM_SPHERE", "ShapeShapeCollide", <<"Plane<S>", "Sphere<S>">>>>,
    <<"GEOM_PLANE", "GEOM_ELLIPSOID", "ShapeShapeCollide", <<"Plane<S>", "Ellipsoid<S>">>>>,
    <<"GEOM_PLANE", "GEOM_CAPSULE", "ShapeShapeCollide", <<"Plane<S>", "Capsule<S>">>>>,
    <<"GEOM_PLANE", "GEOM_CONE", "ShapeShapeCollide", <<"Plane<S>", "Cone<S>">>>>,
    <<"GEOM_PLANE", "GEOM_CYLINDER", "ShapeShapeCollide", <<"Plane<S>", "Cylinder<S>">>>>,
    <<"GEOM_PLANE", "GEOM_CONVEX", "ShapeShapeCollide", <<"Plane<S>", "Convex<S>">>>>,
    <<"GEOM_PLANE", "GEOM_PLANE", "ShapeShapeCollide", <<"Plane<S>", "Plane<S>">>>>,
    <<"GEOM_PLANE", "GEOM_HALFSPACE", "ShapeShapeCollide", <<"Plane<S>", "Halfspace<S>">>>>,
    <<"GEOM_HALFSPACE", "GEOM_BOX", "ShapeShapeCollide", <<"Halfspace<S>", "Box<S>">>>>,
    <<"GEOM_HALFSPACE", "GEOM_SPHERE", "ShapeShapeCollide", <<"Halfspace<S>", "Sphere<S>">>>>,
    <<"GEOM_HALFSPACE", "GEOM_CAPSULE", "ShapeShapeCollide", <<"Halfspace<S>", "Capsule<S>">>>>,
    <<"GEOM_HALFSPACE", "GEOM_CONE", "ShapeShapeCollide", <<"Halfspace<S>", "Cone<S>">>>>,
    <<"GEOM_HALFSPACE", "GEOM_CYLINDER", "ShapeShapeCollide", <<"Halfspace<S>", "Cylinder<S>">>>>,
    <<"GEOM_HALFSPACE", "GEOM_CONVEX", "ShapeShapeCollide", <<"Halfspace<S>", "Convex<S>">>>>,
    <<"GEOM_HALFSPACE", "GEOM_PLANE", "ShapeShapeCollide", <<"Halfspace<S>", "Plane<S>">>>>,
    <<"GEOM_HALFSPACE", "GEOM_HALFSPACE", "ShapeShapeCollide", <<"Halfspace<S>", "Halfspace<S>">>>>
  >>

\* the BVH x Shape block with a mirrored Shape x BVH entry after every
\* assignment
BVHShapeAssignments_Symmetric ==
  [k \in 1..(2 * Len(BVs) * Len(Shapes)) |->
     LET n == (k - 1) \div 2
         b == BVs[(n \div Len(Shapes)) + 1]
         s == Shapes[(n % Len(Shapes)) + 1]
         h == <<TypeOf(b), TypeOf(s)>>
     IN  IF k % 2 = 1
         THEN <<b, s, "BVHShapeCollider::collide", h>>
         ELSE <<s, b, "BVHShapeCollider::collide", h>>]

\* collision_matrix[BV_*][shape] = &BVHShapeCollider<...>::collide
BVHShapeAssignments ==
  <<
    <<"BV_AABB", "GEOM_BOX", "BVHShapeCollider::collide", <<"AABB<S>", "Box<S>">>>>,
    <<"BV_AABB", "GEOM_SPHERE", "BVHShapeCollider::collide", <<"AABB<S>", "Sphere<S>">>>>,
    <<"BV_AABB", "GEOM_ELLIPSOID", "BVHShapeCollider::collide", <<"AABB<S>", "Ellipsoid<S>">>>>,
    <<"BV_AABB", "GEOM_CAPSULE", "BVHShapeCollider::collide", <<"AABB<S>", "Capsule<S>">>>>,
    <<"BV_AABB", "GEOM_CONE", "BVHShapeCollider::collide", <<"AABB<S>", "Cone<S>">>>>,
    <<"BV_AABB", "GEOM_CYLINDER", "BVHShapeCollider::collide", <<"AABB<S>", "Cylinder<S>">>>>,
    <<"BV_AABB", "GEOM_CONVEX", "BVHShapeCollider::collide", <<"AABB<S>", "Convex<S>">>>>,
    <<"BV_AABB", "GEOM_PLANE", "BVHShapeCollider::collide", <<"AABB<S>", "Plane<S>">>>>,
    <<"BV_AABB", "GEOM_HALFSPACE", "BVHShapeCollider::collide", <<"AABB<S>", "Halfspace<S>">>>>,
    <<"BV_OBB", "GEOM_BOX", "BVHShapeCollider::collide", <<"OBB<S>", "Box<S>">>>>,
    <<"BV_OBB", "GEOM_SPHERE", "BVHShapeCollider::collide", <<"OBB<S>", "Sphere<S>">>>>,
    <<"BV_OBB", "GEOM_ELLIPSOID", "BVHShapeCollider::collide", <<"OBB<S>", "Ellipsoid<S>">>>>,
    <<"BV_OBB", "GEOM_CAPSULE", "BVHShapeCollider::collide", <<"OBB<S>", "Capsule<S>">>>>,
    <<"BV_OBB", "GEOM_CONE", "BVHShapeCollider::collide", <<"OBB<S>", "Cone<S>">>>>,
    <<"BV_OBB", "GEOM_CYLINDER", "BVHShapeCollider::collide", <<"OBB<S>", "Cylinder<S>">>>>,
    <<"BV_OBB", "GEOM_CONVEX", "BVHShapeCollider::collide", <<"OBB<S>", "Convex<S>">>>>,
    <<"BV_OBB", "GEOM_PLANE", "BVHShapeCollider::collide", <<"OBB<S>", "Plane<S>">>>>,
    <<"BV_OBB", "GEOM_HALFSPACE", "BVHShapeCollider::collide", <<"OBB<S>", "Halfspace<S>">>>>,
    <<"BV_RSS", "GEOM_BOX", "BVHShapeCollider::collide", <<"RSS<S>", "Box<S>">>>>,
    <<"BV_RSS", "GEOM_SPHERE", "BVHShapeCollider::collide", <<"RSS<S>", "Sphere<S>">>>>,
    <<"BV_RSS", "GEOM_ELLIPSOID", "BVHShapeCollider::collide", <<"RSS<S>", "Ellipsoid<S>">>>>,
    <<"BV_RSS", "GEOM_CAPSULE", "BVHShapeCollider::collide", <<"RSS<S>", "Capsule<S>">>>>,
    <<"BV_RSS", "GEOM_CONE", "BVHShapeCollider::collide", <<"RSS<S>", "Cone<S>">>>>,
    <<"BV_RSS", "GEOM_CYLINDER", "BVHShapeCollider::collide", <<"RSS<S>", "Cylinder<S>">>>>,
    <<"BV_RSS", "GEOM_CONVEX", "BVHShapeCollider::collide", <<"RSS<S>", "Convex<S>">>>>,
    <<"BV_RSS", "GEOM_PLANE", "BVHShapeCollider::collide", <<"RSS<S>", "Plane<S>">>>>,
    <<"BV_RSS", "GEOM_HALFSPACE", "BVHShapeCollider::collide", <<"RSS<S>", "Halfspace<S>">>>>,
    <<"BV_KDOP16", "GEOM_BOX", "BVHShapeCollider::collide", <<"KDOP<S, 16>", "Box<S>">>>>,
    <<"BV_KDOP16", "GEOM_SPHERE", "BVHShapeCollider::collide", <<"KDOP<S, 16>", "Sphere<S>">>>>,
    <<"BV_KDOP16", "GEOM_ELLIPSOID", "BVHShapeCollider::collide", <<"KDOP<S, 16>", "Ellipsoid<S>">>>>,
    <<"BV_KDOP16", "GEOM_CAPSULE", "BVHShapeCollider::collide", <<"KDOP<S, 16>", "Capsule<S>">>>>,
    <<"BV_KDOP16", "GEOM_CONE", "BVHShapeCollider::collide", <<"KDOP<S, 16>", "Cone<S>">>>>,
    <<"BV_KDOP16", "GEOM_CYLINDER", "BVHShapeCollider::collide", <<"KDOP<S, 16>", "Cylinder<S>">>>>,
    <<"BV_KDOP16", "GEOM_CONVEX", "BVHShapeCollider::collide", <<"KDOP<S, 16>", "Convex<S>">>>>,
    <<"BV_KDOP16", "GEOM_PLANE", "BVHShapeCollider::collide", <<"KDOP<S, 16>", "Plane<S>">>>>,
    <<"BV_KDOP16", "GEOM_HALFSPACE", "BVHShapeCollider::collide", <<"KDOP<S, 16>", "Halfspace<S>">>>>,
    <<"BV_KDOP18", "GEOM_BOX", "BVHShapeCollider::collide", <<"KDOP<S, 18>", "Box<S>">>>>,
    <<"BV_KDOP18", "GEOM_SPHERE", "BVHShapeCollider::collide", <<"KDOP<S, 18>", "Sphere<S>">>>>,
    <<"BV_KDOP18", "GEOM_ELLIPSOID", "BVHShapeCollider::collide", <<"KDOP<S, 18>", "Ellipsoid<S>">>>>,
    <<"BV_KDOP18", "GEOM_CAPSULE", "BVHShapeCollider::collide", <<"KDOP<S, 18>", "Capsule<S>">>>>,
    <<"BV_KDOP18", "GEOM_CONE", "BVHShapeCollider::collide", <<"KDOP<S, 18>", "Cone<S>">>>>,
    <<"BV_KDOP18", "GEOM_CYLINDER", "BVHShapeCollider::collide", <<"KDOP<S, 18>", "Cylinder<S>">>>>,
    <<"BV_KDOP18", "GEOM_CONVEX", "BVHShapeCollider::collide", <<"KDOP<S, 18>", "Convex<S>">>>>,
    <<"BV_KDOP18", "GEOM_PLANE", "BVHShapeCollider::collide", <<"KDOP<S, 18>", "Plane<S>">>>>,
    <<"BV_KDOP18", "GEOM_HALFSPACE", "BVHShapeCollider::collide", <<"KDOP<S, 18>", "Halfspace<S>">>>>,
    <<"BV_KDOP24", "GEOM_BOX", "BVHShapeCollider::collide", <<"KDOP<S, 24>", "Box<S>">>>>,
    <<"BV_KDOP24", "GEOM_SPHERE", "BVHShapeCollider::collide", <<"KDOP<S, 24>", "Sphere<S>">>>>,
    <<"BV_KDOP24", "GEOM_ELLIPSOID", "BVHShapeCollider::collide", <<"KDOP<S, 24>", "Ellipsoid<S>">>>>,
    <<"BV_KDOP24", "GEOM_CAPSULE", "BVHShapeCollider::collide", <<"KDOP<S, 24>", "Capsule<S>">>>>,
    <<"BV_KDOP24", "GEOM_CONE", "BVHShapeCollider::collide", <<"KDOP<S, 24>", "Cone<S>">>>>,
    <<"BV_KDOP24", "GEOM_CYLINDER", "BVHShapeCollider::collide", <<"KDOP<S, 24>", "Cylinder<S>">>>>,
    <<"BV_KDOP24", "GEOM_CONVEX", "BVHShapeCollider::collide", <<"KDOP<S, 24>", "Convex<S>">>>>,
    <<"BV_KDOP24", "GEOM_PLANE", "BVHShapeCollider::collide", <<"KDOP<S, 24>", "Plane<S>">>>>,
    <<"BV_KDOP24", "GEOM_HALFSPACE", "BVHShapeCollider::collide", <<"KDOP<S, 24>", "Halfspace<S>">>>>,
    <<"BV_kIOS", "GEOM_BOX", "BVHShapeCollider::collide", <<"kIOS<S>", "Box<S>">>>>,
    <<"BV_kIOS", "GEOM_SPHERE", "BVHShapeCollider::collide", <<"kIOS<S>", "Sphere<S>">>>>,
    <<"BV_kIOS", "GEOM_ELLIPSOID", "BVHShapeCollider::collide", <<"kIOS<S>", "Ellipsoid<S>">>>>,
    <<"BV_kIOS", "GEOM_CAPSULE", "BVHShapeCollider::collide", <<"kIOS<S>", "Capsule<S>">>>>,
    <<"BV_kIOS", "GEOM_CONE", "BVHShapeCollider::collide", <<"kIOS<S>", "Cone<S>">>>>,
    <<"BV_kIOS", "GEOM_CYLINDER", "BVHShapeCollider::collide", <<"kIOS<S>", "Cylinder<S>">>>>,
    <<"BV_kIOS", "GEOM_CONVEX", "BVHShapeCollider::collide", <<"kIOS<S>", "Convex<S>">>>>,
    <<"BV_kIOS", "GEOM_PLANE", "BVHShapeCollider::collide", <<"kIOS<S>", "Plane<S>">>>>,
    <<"BV_kIOS", "GEOM_HALFSPACE", "BVHShapeCollider::collide", <<"kIOS<S>", "Halfspace<S>">>>>,
    <<"BV_OBBRSS", "GEOM_BOX", "BVHShapeCollider::collide", <<"OBBRSS<S>", "Box<S>">>>>,
    <<"BV_OBBRSS", "GEOM_SPHERE", "BVHShapeCollider::collide", <<"OBBRSS<S>", "Sphere<S>">>>>,
    <<"BV_OBBRSS", "GEOM_ELLIPSOID", "BVHShapeCollider::collide", <<"OBBRSS<S>", "Ellipsoid<S>">>>>,
    <<"BV_OBBRSS", "GEOM_CAPSULE", "BVHShapeCollider::collide", <<"OBBRSS<S>", "Capsule<S>">>>>,
    <<"BV_OBBRSS", "GEOM_CONE", "BVHShapeCollider::collide", <<"OBBRSS<S>", "Cone<S>">>>>,
    <<"BV_OBBRSS", "GEOM_CYLINDER", "BVHShapeCollider::collide", <<"OBBRSS<S>", "Cylinder<S>">>>>,
    <<"BV_OBBRSS", "GEOM_CONVEX", "BVHShapeCollider::collide", <<"OBBRSS<S>", "Convex<S>">>>>,
    <<"BV_OBBRSS", "GEOM_PLANE", "BVHShapeCollider::collide", <<"OBBRSS<S>", "Plane<S>">>>>,
    <<"BV_OBBRSS", "GEOM_HALFSPACE", "BVHShapeCollider::collide", <<"OBBRSS<S>", "Halfspace<S>">>>>
  >>

\* the diagonal with one more entry for an AABB mesh against an OBB mesh
BVHBVHAssignments_Mixed ==
  <<
    <<"BV_AABB", "BV_AABB", "BVHCollide", <<"AABB<S>">>>>,
    <<"BV_AABB", "BV_OBB", "BVHCollide", <<"AABB<S>">>>>,
    <<"BV_OBB", "BV_OBB", "BVHCollide", <<"OBB<S>">>>>,
    <<"BV_RSS", "BV_RSS", "BVHCollide", <<"RSS<S>">>>>,
    <<"BV_KDOP16", "BV_KDOP16", "BVHCollide", <<"KDOP<S, 16>">>>>,
    <<"BV_KDOP18", "BV_KDOP18", "BVHCollide", <<"KDOP<S, 18>">>>>,
    <<"BV_KDOP24", "BV_KDOP24", "BVHCollide", <<"KDOP<S, 24>">>>>,
    <<"BV_kIOS", "BV_kIOS", "BVHCollide", <<"kIOS<S>">>>>,
    <<"BV_OBBRSS", "BV_OBBRSS", "BVHCollide", <<"OBBRSS<S>">>>>
  >>

\* collision_matrix[BV_*][BV_*] = &BVHCollide<...>
BVHBVHAssignments ==
  <<
    <<"BV_AABB", "BV_AABB", "BVHCollide", <<"AABB<S>">>>>,
    <<"BV_OBB", "BV_OBB", "BVHCollide", <<"OBB<S>">>>>,
    <<"BV_RSS", "BV_RSS", "BVHCollide", <<"RSS<S>">>>>,
    <<"BV_KDOP16", "BV_KDOP16", "BVHCollide", <<"KDOP<S, 16>">>>>,
    <<"BV_KDOP18", "BV_KDOP18", "BVHCollide", <<"KDOP<S, 18>">>>>,
    <<"BV_KDOP24", "BV_KDOP24", "BVHCollide", <<"KDOP<S, 24>">>>>,
    <<"BV_kIOS", "BV_kIOS", "BVHCollide", <<"kIOS<S>">>>>,
    <<"BV_OBBRSS", "BV_OBBRSS", "BVHCollide", <<"OBBRSS<S>">>>>
  >>

\* the assignments inside #if FCL_HAVE_OCTOMAP
OcTreeAssignments ==
  <<
    <<"GEOM_OCTREE", "GEOM_BOX", "OcTreeShapeCollide", <<"Box<S>">>>>,
    <<"GEOM_OCTREE", "GEOM_SPHERE", "OcTreeShapeCollide", <<"Sphere<S>">>>>,
    <<"GEOM_OCTREE", "GEOM_ELLIPSOID", "OcTreeShapeCollide", <<"Ellipsoid<S>">>>>,
    <<"GEOM_OCTREE", "GEOM_CAPSULE", "OcTreeShapeCollide", <<"Capsule<S>">>>>,
    <<"GEOM_OCTREE", "GEOM_CONE", "OcTreeShapeCollide", <<"Cone<S>">>>>,
    <<"GEOM_OCTREE", "GEOM_CYLINDER", "OcTreeShapeCollide", <<"Cylinder<S>">>>>,
    <<"GEOM_OCTREE", "GEOM_CONVEX", "OcTreeShapeCollide", <<"Convex<S>">>>>,
    <<"GEOM_OCTREE", "GEOM_PLANE", "OcTreeShapeCollide", <<"Plane<S>">>>>,
    <<"GEOM_OCTREE", "GEOM_HALFSPACE", "OcTreeShapeCollide", <<"Halfspace<S>">>>>,
    <<"GEOM_BOX", "GEOM_OCTREE", "ShapeOcTreeCollide", <<"Box<S>">>>>,
    <<"GEOM_SPHERE", "GEOM_OCTREE", "ShapeOcTreeCollide", <<"Sphere<S>">>>>,
    <<"GEOM_ELLIPSOID", "GEOM_OCTREE", "ShapeOcTreeCollide", <<"Ellipsoid<S>">>>>,
    <<"GEOM_CAPSULE", "GEOM_OCTREE", "ShapeOcTreeCollide", <<"Capsule<S>">>>>,
    <<"GEOM_CONE", "GEOM_OCTREE", "ShapeOcTreeCollide", <<"Cone<S>">>>>,
    <<"GEOM_CYLINDER", "GEOM_OCTREE", "ShapeOcTreeCollide", <<"Cylinder<S>">>>>,
    <<"GEOM_CONVEX", "GEOM_OCTREE", "ShapeOcTreeCollide", <<"Convex<S>">>>>,
    <<"GEOM_PLANE", "GEOM_OCTREE", "ShapeOcTreeCollide", <<"Plane<S>">>>>,
    <<"GEOM_HALFSPACE", "GEOM_OCTREE", "ShapeOcTreeCollide", <<"Halfspace<S>">>>>,
    <<"GEOM_OCTREE", "GEOM_OCTREE", "OcTreeCollide", <<>>>>,
    <<"GEOM_OCTREE", "BV_AABB", "OcTreeBVHCollide", <<"AABB<S>">>>>,
    <<"GEOM_OCTREE", "BV_OBB", "OcTreeBVHCollide", <<"OBB<S>">>>>,
    <<"GEOM_OCTREE", "BV_RSS", "OcTreeBVHCollide", <<"RSS<S>">>>>,
    <<"GEOM_OCTREE", "BV_OBBRSS", "OcTreeBVHCollide", <<"OBBRSS<S>">>>>,
    <<"GEOM_OCTREE", "BV_kIOS", "OcTreeBVHCollide", <<"kIOS<S>">>>>,
    <<"GEOM_OCTREE", "BV_KDOP16", "OcTreeBVHCollide", <<"KDOP<S, 16>">>>>,
    <<"GEOM_OCTREE", "BV_KDOP18", "OcTreeBVHCollide", <<"KDOP<S, 18>">>>>,
    <<"GEOM_OCTREE", "BV_KDOP24", "OcTreeBVHCollide", <<"KDOP<S, 24>">>>>,
    <<"BV_AABB", "GEOM_OCTREE", "BVHOcTreeCollide", <<"AABB<S>">>>>,
    <<"BV_OBB", "GEOM_OCTREE", "BVHOcTreeCollide", <<"OBB<S>">>>>,
    <<"BV_RSS", "GEOM_OCTREE", "BVHOcTreeCollide", <<"RSS<S>">>>>,
    <<"BV_OBBRSS", "GEOM_OCTREE", "BVHOcTreeCollide", <<"OBBRSS<S>">>>>,
    <<"BV_kIOS", "GEOM_OCTREE", "BVHOcTreeCollide", <<"kIOS<S>">>>>,
    <<"BV_KDOP16", "GEOM_OCTREE", "BVHOcTreeCollide", <<"KDOP<S, 16>">>>>,
    <<"BV_KDOP18", "GEOM_OCTREE", "BVHOcTreeCollide", <<"KDOP<S, 18>">>>>,
    <<"BV_KDOP24", "GEOM_OCTREE", "BVHOcTreeCollide", <<"KDOP<S, 24>">>>>
  >>

\* the octree block compiled whatever FCL_HAVE_OCTOMAP says
Assignments_Unconditional(octomap) ==
  ShapeShapeAssignments \o BVHShapeAssignments \o BVHBVHAssignments
    \o OcTreeAssignments

\* the assignments the build compiles: the octree block only under
\* FCL_HAVE_OCTOMAP
Assignments(octomap) ==
  ShapeShapeAssignments \o BVHShapeAssignments \o BVHBVHAssignments
    \o (IF octomap THEN OcTreeAssignments ELSE <<>>)

\* ------------------------------------------------------------------------
\* Geometries and transforms
\* ------------------------------------------------------------------------
\* the tags of the geometries of the scene: a shape, a mesh per dispatch
\* class (AABB: generic everywhere, RSS: oriented against shapes and generic
\* against meshes, OBB: oriented everywhere) and an octree
SceneTags == {"GEOM_SPHERE", "BV_AABB", "BV_RSS", "BV_OBB", "GEOM_OCTREE"}

IndexOf(t) == CHOOSE i \in DOMAIN NodeKind : NodeKind[i] = t

\* a bounding volume: node `node` of the hierarchy of mesh `of`, expressed
\* in frame `frame`
BVNode(of, node, frame) == [of |-> of, node |-> node, frame |-> frame]

NoBV == BVNode("none", 0, "none")

\* a rigid transform; box transforms remember the BV they were derived from
Transform(base, bv) == [base |-> base, bv |-> bv]

Identity == Transform("identity", NoBV)

\* the geometry of the scene with tag t; every geometry has its own
\* cost_density and thresholds
SceneGeometry(t) ==
  [id |-> t, kind |-> t,
   cost_density |-> 1 + IndexOf(t),
   threshold_occupied |-> 100 + IndexOf(t),
   threshold_free |-> 200 + IndexOf(t),
   bv0 |-> IF t \in BVTags THEN BVNode(t, 0, "local") ELSE NoBV,
   side |-> NoBV]

NoGeometry ==
  [id |-> "none", kind |-> "none", cost_density |-> 0,
   threshold_occupied |-> 0, threshold_free |-> 0, bv0 |-> NoBV,
   side |-> NoBV]

\* Box<S> box: a default-constructed box (cost_density 1,
\* threshold_occupied 1, threshold_free 0)
DefaultBox ==
  [id |-> "box", kind |-> "GEOM_BOX", cost_density |-> 1,
   threshold_occupied |-> 1, threshold_free |-> 0, bv0 |-> NoBV,
   side |-> NoBV]

\* constructBox(bv, tf, box, box_tf): the box takes its extent from bv, its
\* transform is tf composed with the frame of bv
constructBox(bv, tf, box) ==
  [box |-> [box EXCEPT !.side = bv], box_tf |-> Transform(tf.base, bv)]

\* ------------------------------------------------------------------------
\* CollisionRequest / CollisionResult
\* ------------------------------------------------------------------------
\* CollisionRequest(num_max_contacts, enable_contact, num_max_cost_sources,
\*                  enable_cost, use_approximate_cost): the remaining fields
\* take their defaults
CollisionRequest(nmc, contact, nmcs, cost, approx) ==
  [num_max_contacts |-> nmc, enable_contact |-> contact,
   num_max_cost_sources |-> nmcs, enable_cost |-> cost,
   use_approximate_cost |-> approx, gjk_solver_type |-> "GST_LIBCCD",
   enable_cached_gjk_guess |-> FALSE, cached_gjk_guess |-> "UnitX"]

\* the requests callers make
Requests ==
  { [CollisionRequest(nmc, contact, nmcs, cost, approx)
       EXCEPT !.gjk_solver_type = "GST_INDEP",
              !.enable_cached_gjk_guess = cached,
              !.cached_gjk_guess = "guess_of_request"] :
      nmc \in 1..MaxContacts, contact \in BOOLEAN,
      nmcs \in 0..MaxCostSources, cost \in BOOLEAN, approx \in BOOLEAN,
      cached \in BOOLEAN }

Contact(m1, m2, b, detailed) ==
  [o1 |-> m1.id, o2 |-> m2.id, b1 |-> b, detailed |-> detailed]

CostSource(m1, t1, m2, t2) ==
  [o1 |-> m1.id, side1 |-> m1.side, tf1 |-> t1,
   o2 |-> m2.id, side2 |-> m2.side, tf2 |-> t2,
   cost_density |-> m1.cost_density * m2.cost_density]

CollisionResult(contacts, cost_sources, guess) ==
  [contacts |-> contacts, cost_sources |-> cost_sources,
   cached_gjk_guess |-> guess]

\* the results callers pass in: possibly holding contacts and cost sources
\* of an earlier query
InitResults ==
  { CollisionResult(
      [i \in 1..n |-> Contact(NoGeometry, NoGeometry, i, FALSE)],
      [i \in 1..c |-> CostSource(NoGeometry, Identity, NoGeometry, Identity)],
      "guess_of_result") :
      n \in 0..MaxContacts, c \in 0..MaxCostSources }

numContacts(res) == Len(res.contacts)

isCollision(res) == Len(res.contacts) > 0

\* CollisionRequest::isSatisfied: nothing more is needed when cost is not
\* asked for, a collision is recorded and the contact cap is reached
isSatisfied(req, res) ==
  /\ ~req.enable_cost
  /\ isCollision(res)
  /\ req.num_max_contacts <= numContacts(res)

\* CollisionResult::addCostSource(c, num_max_cost_sources)
addCostSource(res, c, cap) ==
  LET all == Append(res.cost_sources, c)
  IN  [res EXCEPT !.cost_sources =
         SubSeq(all, 1, IF Len(all) < cap THEN Len(all) ELSE cap)]

\* ------------------------------------------------------------------------
\* Narrow-phase solver: the cached-guess scratch area
\* ------------------------------------------------------------------------
FreshSolver == [enable_cached_guess |-> FALSE, cached_guess |-> "UnitX"]

enableCachedGuess(s, b) == [s EXCEPT !.enable_cached_guess = b]

setCachedGuess(s, g) == [s EXCEPT !.cached_guess = g]

getCachedGuess(s) == s.cached_guess

\* the guess the solver leaves behind after a traversal with h hits
GuessAfter(h) ==
  CASE h = 0 -> "guess_after_0"
    [] h = 1 -> "guess_after_1"
    [] OTHER -> "guess_after_many"

\* ------------------------------------------------------------------------
\* Traversal nodes and the traversal driver
\* ------------------------------------------------------------------------
Node(kind, m1, t1, m2, t2, req, usesSolver) ==
  [kind |-> kind, model1 |-> m1, tf1 |-> t1, model2 |-> m2, tf2 |-> t2,
   request |-> req, solver |-> usesSolver]

NoNode ==
  Node("none", NoGeometry, Identity, NoGeometry, Identity,
       CollisionRequest(0, FALSE, 0, FALSE, FALSE), FALSE)

\* initialize(node, model1, tf1, model2, tf2, otsolver, request, result) of
\* the shape-octree node: node.request = request; node.result = &result;
\* node.model1 = &model1; node.model2 = &model2; node.otsolver = otsolver;
\* node.tf1 = tf1; node.tf2 = tf2; return true;
ShapeOcTree_initialize(model1, tf1, model2, tf2, request) ==
  [node |-> Node("ShapeOcTreeCollisionTraversalNode", model1, tf1,
                 model2, tf2, request, TRUE),
   result |-> "&result",
   ret |-> TRUE]

\* a leafTesting that hands each model the transform of the other
ShapeOcTree_leafTesting_Crossed(node) ==
  [tree |-> node.model2, s |-> node.model1,
   tf1 |-> node.tf1, tf2 |-> node.tf2, request |-> node.request,
   result |-> "*this->result"]

\* ShapeOcTreeCollisionTraversalNode::leafTesting(int, int):
\* otsolver->OcTreeShapeIntersect(model2, *model1, tf2, tf1,
\*                                this->request, *this->result);
\* the arguments, under the names of the parameters (tree, s, tf1, tf2,
\* request, result) of OcTreeShapeIntersect
ShapeOcTree_leafTesting(node) ==
  [tree |-> node.model2, s |-> node.model1,
   tf1 |-> node.tf2, tf2 |-> node.tf1, request |-> node.request,
   result |-> "*this->result"]

\* the geometries a leaf test works on, each with its transform, first
\* operand of the handler first
LeafArgs(node) ==
  IF node.kind = "ShapeOcTreeCollisionTraversalNode"
  THEN LET a == ShapeOcTree_leafTesting(node)
       IN  [o1 |-> a.s, tf1 |-> a.tf2, o2 |-> a.tree, tf2 |-> a.tf1,
            request |-> a.request]
  ELSE [o1 |-> node.model1, tf1 |-> node.tf1, o2 |-> node.model2,
        tf2 |-> node.tf2, request |-> node.request]

\* a leaf test that, at the cap, puts the new contact in the place of the
\* last one
LeafHit_ReplaceLast(node, res) ==
  LET new == Contact(node.model1, node.model2, numContacts(res) + 1,
                     node.request.enable_contact)
      withContact ==
        IF node.request.num_max_contacts > numContacts(res)
        THEN [res EXCEPT !.contacts = Append(@, new)]
        ELSE IF numContacts(res) > 0
             THEN [res EXCEPT !.contacts[numContacts(res)] = new]
             ELSE res
  IN  IF node.request.enable_cost
      THEN addCostSource(withContact,
                         CostSource(node.model1, node.tf1,
                                    node.model2, node.tf2),
                         node.request.num_max_cost_sources)
      ELSE withContact

\* one intersecting leaf pair: a contact while the cap is not reached, a
\* cost source when cost is enabled
LeafHit(node, res) ==
  LET a == LeafArgs(node)
      withContact ==
        IF a.request.num_max_contacts > numContacts(res)
        THEN [res EXCEPT !.contacts =
                Append(@, Contact(a.o1, a.o2, numContacts(res) + 1,
                                  a.request.enable_contact))]
        ELSE res
  IN  IF a.request.enable_cost
      THEN addCostSource(withContact,
                         CostSource(a.o1, a.tf1, a.o2, a.tf2),
                         a.request.num_max_cost_sources)
      ELSE withContact

\* the result after a traversal that meets h intersecting leaf pairs; the
\* driver consults canStop (isSatisfied) between leaf tests
RECURSIVE Traverse(_, _, _)
Traverse(node, res, h) ==
  IF h = 0 \/ isSatisfied(node.request, res)
  THEN res
  ELSE Traverse(node, LeafHit(node, res), h - 1)

\* ------------------------------------------------------------------------
\* State
\* ------------------------------------------------------------------------
VARIABLES
  have_octomap,      \* FCL_HAVE_OCTOMAP of the build
  collision_matrix,  \* CollisionFunctionMatrix::collision_matrix
  ctor,              \* position of the constructor
  call,              \* the arguments of the running dispatch
  stack,             \* the active handler frames, innermost last
  result,            \* the caller's CollisionResult
  nsolver,           \* the narrow-phase solver
  heap,              \* the temporary models allocated with new
  passes,            \* the traversals run for the call, in order
  outcome,           \* "idle", "running", "returned", "raised" or
                     \* "Unsupported"
  ret,               \* the value returned by the last step, if it returned
  world,             \* the caller's geometries, by tag
  threads,           \* the calls running in parallel on one solver
  fitterBV,          \* the BV a BVFitter<BV> is instantiated with
  fitter,            \* the fields of a BVFitter<BV>
  memory,            \* the arrays the caller of the fitter owns
  fitted             \* the last operation on the fitter and what it gave

vars ==
  <<have_octomap, collision_matrix, ctor, call, stack, result, nsolver,
    heap, passes, outcome, ret, world, threads, fitterBV, fitter, memory,
    fitted>>

ctorVars == <<have_octomap, collision_matrix, ctor>>

fitVars == <<fitterBV, fitter, memory, fitted>>

\* the geometries before any call
Scene == [t \in SceneTags |-> SceneGeometry(t)]

\* no call runs in parallel
NoThreads == <<>>

\* a fitter that holds no data
ClearedFitter ==
  [vertices |-> "NULL", prev_vertices |-> "NULL", tri_indices |-> "NULL",
   type |-> "BVH_MODEL_UNKNOWN"]

NoMemory == <<>>

NoFit == [op |-> "none"]

NoRet == [fn |-> "none", value |-> 0, depth |-> 0]

NoCall ==
  [o1 |-> NoGeometry, tf1 |-> Identity, o2 |-> NoGeometry, tf2 |-> Identity,
   request |-> CollisionRequest(0, FALSE, 0, FALSE, FALSE),
   result |-> CollisionResult(<<>>, <<>>, "none"),
   cell |-> NULL]

Init ==
  /\ have_octomap \in BOOLEAN
  /\ collision_matrix = [t1 \in Tags |-> [t2 \in Tags |-> UNINIT]]
  /\ ctor = [phase |-> "null", i |-> 1, j |-> 1, k |-> 1]
  /\ call = NoCall
  /\ stack = <<>>
  /\ result = CollisionResult(<<>>, <<>>, "none")
  /\ nsolver = FreshSolver
  /\ heap = {}
  /\ passes = <<>>
  /\ outcome = "idle"
  /\ ret = NoRet
  /\ world = Scene
  /\ threads = NoThreads
  /\ fitterBV = "BV"
  /\ fitter = ClearedFitter
  /\ memory = NoMemory
  /\ fitted = NoFit

\* ------------------------------------------------------------------------
\* CollisionFunctionMatrix::CollisionFunctionMatrix()
\* ------------------------------------------------------------------------
\* for(int j = 0; j < NODE_COUNT - 1; ++j): a loop that stops one column
\* short
NullFillColumns_Short == NODE_COUNT - 1

\* the columns the inner loop of the null fill visits: j < NODE_COUNT
NullFillColumns == NODE_COUNT

\* for(i) for(j) collision_matrix[i][j] = NULL;  one cell per step
CtorNullFill ==
  /\ ctor.phase = "null"
  /\ collision_matrix' =
       [collision_matrix EXCEPT ![NodeKind[ctor.i]][NodeKind[ctor.j]] = NULL]
  /\ ctor' =
       IF ctor.j < NullFillColumns
       THEN [ctor EXCEPT !.j = ctor.j + 1]
       ELSE IF ctor.i < NODE_COUNT
            THEN [ctor EXCEPT !.i = ctor.i + 1, !.j = 1]
            ELSE [ctor EXCEPT !.phase = "assign"]
  /\ UNCHANGED <<have_octomap, call, stack, result, nsolver, heap, passes,
                 outcome, ret, world, fitVars, threads>>

\* collision_matrix[row][col] = &fn<targs>;  one assignment per step
CtorAssign ==
  /\ ctor.phase = "assign"
  /\ LET list == Assignments(have_octomap)
         a == list[ctor.k]
     IN  /\ collision_matrix' =
               [collision_matrix EXCEPT ![a[1]][a[2]] = Handler(a[3], a[4])]
         /\ ctor' =
               IF ctor.k < Len(list)
               THEN [ctor EXCEPT !.k = ctor.k + 1]
               ELSE [ctor EXCEPT !.phase = "done"]
  /\ UNCHANGED <<have_octomap, call, stack, result, nsolver, heap, passes,
                 outcome, ret, world, fitVars, threads>>

constructed == ctor.phase = "done"

\* ------------------------------------------------------------------------
\* Frames
\* ------------------------------------------------------------------------
\* the specialisations of BVHShapeCollider without the one for RSS
OrientedMeshShapeNode_NoRSS(bv) ==
  CASE bv = "OBB<S>" -> "MeshShapeCollisionTraversalNodeOBB"
    [] bv = "kIOS<S>" -> "MeshShapeCollisionTraversalNodekIOS"
    [] bv = "OBBRSS<S>" -> "MeshShapeCollisionTraversalNodeOBBRSS"
    [] OTHER -> "none"

\* BVHShapeCollider<BV, Shape>: the partial specialisations for OBB, RSS,
\* kIOS and OBBRSS forward to details::orientedBVHShapeCollide with this
\* traversal node; the primary template serves every other BV
OrientedMeshShapeNode(bv) ==
  CASE bv = "OBB<S>" -> "MeshShapeCollisionTraversalNodeOBB"
    [] bv = "RSS<S>" -> "MeshShapeCollisionTraversalNodeRSS"
    [] bv = "kIOS<S>" -> "MeshShapeCollisionTraversalNodekIOS"
    [] bv = "OBBRSS<S>" -> "MeshShapeCollisionTraversalNodeOBBRSS"
    [] OTHER -> "none"

\* the specialisations of BVHCollideImpl with one more for RSS
OrientedMeshNode_WithRSS(bv) ==
  CASE bv = "OBB<S>" -> "MeshCollisionTraversalNodeOBB"
    [] bv = "RSS<S>" -> "MeshCollisionTraversalNodeRSS"
    [] bv = "OBBRSS<S>" -> "MeshCollisionTraversalNodeOBBRSS"
    [] bv = "kIOS<S>" -> "MeshCollisionTraversalNodekIOS"
    [] OTHER -> "none"

\* BVHCollideImpl<S, BV>: the specialisations for OBB, OBBRSS and kIOS
\* forward to details::orientedMeshCollide with this traversal node
OrientedMeshNode(bv) ==
  CASE bv = "OBB<S>" -> "MeshCollisionTraversalNodeOBB"
    [] bv = "OBBRSS<S>" -> "MeshCollisionTraversalNodeOBBRSS"
    [] bv = "kIOS<S>" -> "MeshCollisionTraversalNodekIOS"
    [] OTHER -> "none"

\* the casts with those of OcTreeShapeCollide crossed
StaticCasts_OcTreeShapeCrossed(cell) ==
  CASE cell.fn = "ShapeShapeCollide" ->
         <<<<cell.targs[1]>>, <<cell.targs[2]>>>>
    [] cell.fn = "ShapeOcTreeCollide" ->
         <<<<cell.targs[1]>>, <<"OcTree<S>">>>>
    [] cell.fn = "OcTreeShapeCollide" ->
         <<<<cell.targs[1]>>, <<"OcTree<S>">>>>
    [] cell.fn = "OcTreeCollide" ->
         <<<<"OcTree<S>">>, <<"OcTree<S>">>>>
    [] cell.fn = "OcTreeBVHCollide" ->
         <<<<"OcTree<S>">>, <<"BVHModel", cell.targs[1]>>>>
    [] cell.fn = "BVHOcTreeCollide" ->
         <<<<"BVHModel", cell.targs[1]>>, <<"OcTree<S>">>>>
    [] cell.fn = "BVHShapeCollider::collide" ->
         <<<<"BVHModel", cell.targs[1]>>, <<cell.targs[2]>>>>
    [] cell.fn = "BVHCollide" ->
         <<<<"BVHModel", cell.targs[1]>>, <<"BVHModel", cell.targs[1]>>>>
    [] OTHER -> <<<<>>, <<>>>>

\* the types a handler casts o1 and o2 to:
\* static_cast<const Shape1*>(o1), static_cast<const Shape2*>(o2);
\* static_cast<const OcTree<S>*>(..), static_cast<const BVHModel<BV>*>(..);
\* a class template with its argument is written <<"BVHModel", BV>>
StaticCasts(cell) ==
  CASE cell.fn = "ShapeShapeCollide" ->
         <<<<cell.targs[1]>>, <<cell.targs[2]>>>>
    [] cell.fn = "ShapeOcTreeCollide" ->
         <<<<cell.targs[1]>>, <<"OcTree<S>">>>>
    [] cell.fn = "OcTreeShapeCollide" ->
         <<<<"OcTree<S>">>, <<cell.targs[1]>>>>
    [] cell.fn = "OcTreeCollide" ->
         <<<<"OcTree<S>">>, <<"OcTree<S>">>>>
    [] cell.fn = "OcTreeBVHCollide" ->
         <<<<"OcTree<S>">>, <<"BVHModel", cell.targs[1]>>>>
    [] cell.fn = "BVHOcTreeCollide" ->
         <<<<"BVHModel", cell.targs[1]>>, <<"OcTree<S>">>>>
    [] cell.fn = "BVHShapeCollider::collide" ->
         <<<<"BVHModel", cell.targs[1]>>, <<cell.targs[2]>>>>
    [] cell.fn = "BVHCollide" ->
         <<<<"BVHModel", cell.targs[1]>>, <<"BVHModel", cell.targs[1]>>>>
    [] OTHER -> <<<<>>, <<>>>>

\* the function body a handler runs once the forwarding wrappers are
\* resolved
Body(cell) ==
  CASE cell.fn = "BVHShapeCollider::collide" ->
         IF OrientedMeshShapeNode(cell.targs[1]) # "none"
         THEN "orientedBVHShapeCollide"
         ELSE "BVHShapeCollider::collide"
    [] cell.fn = "BVHCollide" ->
         IF OrientedMeshNode(cell.targs[1]) # "none"
         THEN "orientedMeshCollide"
         ELSE "BVHCollideImpl::run"
    [] OTHER -> cell.fn

Frame(cell, o1, tf1, o2, tf2, req) ==
  [fn |-> Body(cell), targs |-> cell.targs, o1 |-> o1, tf1 |-> tf1,
   o2 |-> o2, tf2 |-> tf2, request |-> req, pc |-> "entry",
   branch |-> "none", node |-> NoNode]

Top == stack[Len(stack)]

Active(fn, pc) ==
  /\ outcome = "running"
  /\ stack # <<>>
  /\ Top.fn = fn
  /\ Top.pc = pc

SetTop(f) == [stack EXCEPT ![Len(stack)] = f]

\* a return of the number of contacts the result held when the call was
\* dispatched
Return_CountAtEntry(res) ==
  /\ ret' = [fn |-> Top.fn, value |-> numContacts(call.result),
             depth |-> Len(stack)]
  /\ stack' = SubSeq(stack, 1, Len(stack) - 1)
  /\ outcome' = IF Len(stack) = 1 THEN "returned" ELSE "running"

\* return result.numContacts();
Return(res) ==
  /\ ret' = [fn |-> Top.fn, value |-> numContacts(res), depth |-> Len(stack)]
  /\ stack' = SubSeq(stack, 1, Len(stack) - 1)
  /\ outcome' = IF Len(stack) = 1 THEN "returned" ELSE "running"

\* ------------------------------------------------------------------------
\* The dispatcher: collide(o1, tf1, o2, tf2, nsolver, request, result)
\* ------------------------------------------------------------------------
Call ==
  /\ constructed
  /\ outcome = "idle"
  /\ \E t1 \in SceneTags, t2 \in SceneTags, req \in Requests,
        res \in InitResults :
       LET o1 == SceneGeometry(t1)
           o2 == SceneGeometry(t2)
           tf1 == Transform("tf1", NoBV)
           tf2 == Transform("tf2", NoBV)
           cell == collision_matrix[t1][t2]
       IN  /\ call' = [o1 |-> o1, tf1 |-> tf1, o2 |-> o2, tf2 |-> tf2,
                       request |-> req, result |-> res, cell |-> cell]
           /\ result' = res
           /\ nsolver' = FreshSolver
           /\ passes' = <<>>
           /\ ret' = NoRet
           /\ IF cell = NULL
              THEN /\ outcome' = "Unsupported"
                   /\ stack' = <<>>
              ELSE /\ outcome' = "running"
                   /\ stack' = <<Frame(cell, o1, tf1, o2, tf2, req)>>
  /\ UNCHANGED <<ctorVars, fitVars, threads, world, heap>>

\* ------------------------------------------------------------------------
\* The traversal driver collide(&node)
\* ------------------------------------------------------------------------
\* the number of intersecting leaf pairs a node can meet: a shape-shape
\* node runs leafTesting once
MaxHits(node) ==
  IF node.kind = "ShapeCollisionTraversalNode" THEN 1 ELSE MaxLeafHits

\* a BVTesting of the shape-octree node that reports the pair as disjoint
ShapeOcTree_BVTesting_Disjoint(i, j) == TRUE

\* ShapeOcTreeCollisionTraversalNode::BVTesting(int, int): return false;
ShapeOcTree_BVTesting(i, j) == FALSE

\* the answers BVTesting(i, j) can give: the shape-octree node answers as
\* above; a node over the hierarchy of a mesh (and no octree) compares
\* bounding volumes, which may be disjoint or not; the other nodes have no
\* bounding volumes to compare and answer false
BVTesting(node, i, j) ==
  IF node.kind = "ShapeOcTreeCollisionTraversalNode"
  THEN {ShapeOcTree_BVTesting(i, j)}
  ELSE IF node.model1.kind \in BVTags /\ node.model2.kind # "GEOM_OCTREE"
       THEN BOOLEAN
       ELSE {FALSE}

\* collide(&node): if(node->BVTesting(0, 0)) return; otherwise the leaf
\* tests run; leafTesting records whether the driver got to them
collide ==
  /\ outcome = "running"
  /\ stack # <<>>
  /\ Top.pc = "collide"
  /\ \E disjoint \in BVTesting(Top.node, 0, 0), h \in 0..MaxHits(Top.node) :
       /\ disjoint => h = 0
       /\ result' = Traverse(Top.node, result, h)
       /\ nsolver' =
            IF ~disjoint /\ Top.node.solver /\ nsolver.enable_cached_guess
            THEN setCachedGuess(nsolver, GuessAfter(h))
            ELSE nsolver
       /\ passes' = Append(passes, [fn |-> Top.fn, node |-> Top.node,
                                    before |-> result,
                                    after |-> Traverse(Top.node, result, h),
                                    leafTesting |-> ~disjoint])
  /\ stack' = SetTop([Top EXCEPT !.pc = "after"])
  /\ ret' = NoRet
  /\ UNCHANGED <<ctorVars, fitVars, threads, world, call, heap, outcome>>

\* an exception leaves the handlers: the stack is unwound, which destroys
\* the automatic objects of every frame and frees nothing that was
\* allocated with new
Raise ==
  /\ stack' = <<>>
  /\ outcome' = "raised"
  /\ ret' = NoRet

\* an exception thrown inside collide(&node), by the narrow phase or by the
\* growth of the sequences of the result, after h intersecting leaf pairs
collide_Raise ==
  /\ outcome = "running"
  /\ stack # <<>>
  /\ Top.pc = "collide"
  /\ \E h \in 0..MaxHits(Top.node) :
       result' = Traverse(Top.node, result, h)
  /\ Raise
  /\ UNCHANGED <<ctorVars, fitVars, threads, world, call, nsolver, heap,
                 passes>>

\* ------------------------------------------------------------------------
\* Pieces shared by the handlers
\* ------------------------------------------------------------------------
\* a handler without the test on entry
Satisfied_Never == FALSE

\* if(request.isSatisfied(result)) return result.numContacts();
Satisfied == isSatisfied(Top.request, result)

EarlyExit ==
  /\ Return(result)
  /\ UNCHANGED <<ctorVars, fitVars, threads, world, call, result, nsolver, heap, passes>>

\* what initialize leaves in the caller's geometries: the models the node
\* was given are written where they live, so a write to a model that is
\* one of the caller's geometries lands in the caller's scene
Stored(w, m) == IF m.id \in DOMAIN w THEN [w EXCEPT ![m.id] = m] ELSE w

Initialize(w, node) == Stored(Stored(w, node.model1), node.model2)

\* initialize(node, ...); the frame goes on to collide(&node)
StartTraversal(node, branch) ==
  /\ stack' = SetTop([Top EXCEPT !.pc = "collide", !.node = node,
                                 !.branch = branch])
  /\ world' = Initialize(world, node)
  /\ ret' = NoRet
  /\ UNCHANGED <<ctorVars, fitVars, threads, call, result, passes, outcome>>

\* a nested call of another handler; the caller resumes at its return
\* statement
CallHandler(cell, o1, tf1, o2, tf2, req) ==
  /\ stack' = Append(SetTop([Top EXCEPT !.pc = "ret"]),
                     Frame(cell, o1, tf1, o2, tf2, req))
  /\ ret' = NoRet
  /\ UNCHANGED <<ctorVars, fitVars, threads, world, call, result, nsolver, passes, outcome>>

\* return result.numContacts(); with nothing else changing
ReturnOnly ==
  /\ Return(result)
  /\ UNCHANGED <<ctorVars, fitVars, threads, world, call, result, nsolver, heap, passes>>

\* the test with the second flag inverted
ApproximateCost_Inverted(req) == req.enable_cost /\ ~req.use_approximate_cost

\* if(request.enable_cost && request.use_approximate_cost)
ApproximateCost(req) == req.enable_cost /\ req.use_approximate_cost

\* the copy without the reset of enable_cost
NoCostRequest_CostKept(req) == req

\* CollisionRequest<S> no_cost_request(request);
\* no_cost_request.enable_cost = false;
NoCostRequest(req) == [req EXCEPT !.enable_cost = FALSE]

\* the cost request built with the caller's contact cap
OnlyCostRequest_CallerCap(req, res) ==
  CollisionRequest(req.num_max_contacts, FALSE, req.num_max_cost_sources,
                   TRUE, FALSE)

\* CollisionRequest<S> only_cost_request(result.numContacts(), false,
\*     request.num_max_cost_sources, true, false);
OnlyCostRequest(req, res) ==
  CollisionRequest(numContacts(res), FALSE, req.num_max_cost_sources,
                   TRUE, FALSE)

\* Box<S> box; Transform3<S> box_tf;
\* constructBox(mesh->getBV(0).bv, tf, box, box_tf);
\* box.cost_density = mesh->cost_density; ... threshold_occupied,
\* threshold_free
CostBox(mesh, tf) ==
  LET cb == constructBox(mesh.bv0, tf, DefaultBox)
  IN  [box |-> [cb.box EXCEPT !.cost_density = mesh.cost_density,
                              !.threshold_occupied = mesh.threshold_occupied,
                              !.threshold_free = mesh.threshold_free],
       box_tf |-> cb.box_tf]

\* a pointer to the caller's model in place of a copy
CopyModel_Alias(m, name) == m

\* new BVHModel<BV>(*obj): a private copy of the model
CopyModel(m, name) == [m EXCEPT !.id = name]

\* initialize of the generic mesh nodes: a model with a non-identity
\* transform has its vertices moved to the world frame and its hierarchy
\* refitted, and its transform becomes the identity
WorldFrame(m, tf) == [m EXCEPT !.bv0.frame = tf.base]

\* ------------------------------------------------------------------------
\* ShapeShapeCollide<Shape1, Shape2, NarrowPhaseSolver>
\* ------------------------------------------------------------------------
\* the setup without setCachedGuess
ShapeShapeSolverSetup_NoSet(s, req) == enableCachedGuess(s, TRUE)

\* if(request.enable_cached_gjk_guess) { enableCachedGuess(true);
\*   setCachedGuess(request.cached_gjk_guess); }
\* else { enableCachedGuess(true); }
ShapeShapeSolverSetup(s, req) ==
  IF req.enable_cached_gjk_guess
  THEN setCachedGuess(enableCachedGuess(s, TRUE), req.cached_gjk_guess)
  ELSE enableCachedGuess(s, TRUE)

\* if(request.enable_cached_gjk_guess)
\*   result.cached_gjk_guess = nsolver->getCachedGuess();
ShapeShapeStoreGuess(res, s, req) ==
  IF req.enable_cached_gjk_guess
  THEN [res EXCEPT !.cached_gjk_guess = getCachedGuess(s)]
  ELSE res

ShapeShapeCollide_Entry ==
  /\ Active("ShapeShapeCollide", "entry")
  /\ IF Satisfied
     THEN EarlyExit
     ELSE /\ nsolver' = ShapeShapeSolverSetup(nsolver, Top.request)
          /\ StartTraversal(
               Node("ShapeCollisionTraversalNode", Top.o1, Top.tf1,
                    Top.o2, Top.tf2, Top.request, TRUE), "plain")
          /\ UNCHANGED heap

ShapeShapeCollide_Exit ==
  /\ Active("ShapeShapeCollide", "after")
  /\ result' = ShapeShapeStoreGuess(result, nsolver, Top.request)
  /\ Return(result')
  /\ UNCHANGED <<ctorVars, fitVars, threads, world, call, nsolver, heap, passes>>

\* ------------------------------------------------------------------------
\* BVHShapeCollider<BV, Shape, NarrowPhaseSolver>::collide, primary template
\* ------------------------------------------------------------------------
BVHShapeCollider_Entry ==
  /\ Active("BVHShapeCollider::collide", "entry")
  /\ IF Satisfied
     THEN EarlyExit
     ELSE LET approx == ApproximateCost(Top.request)
              obj1_tmp == WorldFrame(CopyModel(Top.o1, "obj1_tmp"), Top.tf1)
          IN  /\ heap' = heap \cup {"obj1_tmp"}
              /\ StartTraversal(
                   Node("MeshShapeCollisionTraversalNode", obj1_tmp,
                        Identity, Top.o2, Top.tf2,
                        IF approx THEN NoCostRequest(Top.request)
                                  ELSE Top.request,
                        TRUE),
                   IF approx THEN "approx" ELSE "plain")
              /\ UNCHANGED nsolver

\* new BVHModel<BV>(*obj1) throws std::bad_alloc
BVHShapeCollider_BadAlloc ==
  /\ Active("BVHShapeCollider::collide", "entry")
  /\ ~Satisfied
  /\ Raise
  /\ UNCHANGED <<ctorVars, fitVars, threads, world, call, result, nsolver,
                 heap, passes>>

\* the arguments of the cost pass of the mesh-against-shape handlers:
\* ShapeShapeCollide<Box<S>, Shape>(&box, box_tf, o2, tf2, nsolver,
\*                                 only_cost_request, result)
BVHShapeCostPass(f) ==
  LET cb == CostBox(f.o1, f.tf1)
  IN  [cell |-> Handler("ShapeShapeCollide", <<"Box<S>", f.targs[2]>>),
       o1 |-> cb.box, tf1 |-> cb.box_tf, o2 |-> f.o2, tf2 |-> f.tf2]

\* delete obj1_tmp; then, in the approximate branch, the cost pass
BVHShapeCollider_After ==
  /\ Active("BVHShapeCollider::collide", "after")
  /\ heap' = heap \ {"obj1_tmp"}
  /\ IF Top.branch = "approx"
     THEN LET p == BVHShapeCostPass(Top)
          IN  CallHandler(p.cell, p.o1, p.tf1, p.o2, p.tf2,
                          OnlyCostRequest(Top.request, result))
     ELSE /\ Return(result)
          /\ UNCHANGED <<ctorVars, fitVars, threads, world, call, result, nsolver, passes>>

BVHShapeCollider_Return ==
  /\ Active("BVHShapeCollider::collide", "ret")
  /\ ReturnOnly

\* ------------------------------------------------------------------------
\* details::orientedBVHShapeCollide
\* ------------------------------------------------------------------------
orientedBVHShapeCollide_Entry ==
  /\ Active("orientedBVHShapeCollide", "entry")
  /\ IF Satisfied
     THEN EarlyExit
     ELSE LET approx == ApproximateCost(Top.request)
          IN  /\ StartTraversal(
                   Node(OrientedMeshShapeNode(Top.targs[1]), Top.o1,
                        Top.tf1, Top.o2, Top.tf2,
                        IF approx THEN NoCostRequest(Top.request)
                                  ELSE Top.request,
                        TRUE),
                   IF approx THEN "approx" ELSE "plain")
              /\ UNCHANGED <<nsolver, heap>>

orientedBVHShapeCollide_After ==
  /\ Active("orientedBVHShapeCollide", "after")
  /\ IF Top.branch = "approx"
     THEN LET p == BVHShapeCostPass(Top)
          IN  /\ CallHandler(p.cell, p.o1, p.tf1, p.o2, p.tf2,
                             OnlyCostRequest(Top.request, result))
              /\ UNCHANGED heap
     ELSE ReturnOnly

orientedBVHShapeCollide_Return ==
  /\ Active("orientedBVHShapeCollide", "ret")
  /\ ReturnOnly

\* ------------------------------------------------------------------------
\* BVHCollideImpl<S, BV>::run, primary template (reached through BVHCollide)
\* ------------------------------------------------------------------------
BVHCollideImpl_run_Entry ==
  /\ Active("BVHCollideImpl::run", "entry")
  /\ IF Satisfied
     THEN EarlyExit
     ELSE LET obj1_tmp == WorldFrame(CopyModel(Top.o1, "obj1_tmp"), Top.tf1)
              obj2_tmp == WorldFrame(CopyModel(Top.o2, "obj2_tmp"), Top.tf2)
          IN  /\ heap' = heap \cup {"obj1_tmp", "obj2_tmp"}
              /\ StartTraversal(
                   Node("MeshCollisionTraversalNode", obj1_tmp, Identity,
                        obj2_tmp, Identity, Top.request, FALSE),
                   "plain")
              /\ UNCHANGED nsolver

\* one of new BVHModel<BV>(*obj1), new BVHModel<BV>(*obj2) throws
\* std::bad_alloc; the second one throws with obj1_tmp allocated
BVHCollideImpl_run_BadAlloc ==
  /\ Active("BVHCollideImpl::run", "entry")
  /\ ~Satisfied
  /\ \E failed \in {"obj1_tmp", "obj2_tmp"} :
       heap' = IF failed = "obj2_tmp" THEN heap \cup {"obj1_tmp"} ELSE heap
  /\ Raise
  /\ UNCHANGED <<ctorVars, fitVars, threads, world, call, result, nsolver,
                 passes>>

BVHCollideImpl_run_Exit ==
  /\ Active("BVHCollideImpl::run", "after")
  /\ heap' = heap \ {"obj1_tmp", "obj2_tmp"}
  /\ Return(result)
  /\ UNCHANGED <<ctorVars, fitVars, threads, world, call, result, nsolver, passes>>

\* ------------------------------------------------------------------------
\* details::orientedMeshCollide
\* ------------------------------------------------------------------------
orientedMeshCollide_Entry ==
  /\ Active("orientedMeshCollide", "entry")
  /\ IF Satisfied
     THEN EarlyExit
     ELSE /\ StartTraversal(
               Node(OrientedMeshNode(Top.targs[1]), Top.o1, Top.tf1,
                    Top.o2, Top.tf2, Top.request, FALSE),
               "plain")
          /\ UNCHANGED <<nsolver, heap>>

orientedMeshCollide_Exit ==
  /\ Active("orientedMeshCollide", "after")
  /\ ReturnOnly

\* ------------------------------------------------------------------------
\* The octree handlers (compiled under FCL_HAVE_OCTOMAP)
\* ------------------------------------------------------------------------
ShapeOcTreeCollide_Entry ==
  /\ Active("ShapeOcTreeCollide", "entry")
  /\ IF Satisfied
     THEN EarlyExit
     ELSE /\ StartTraversal(
               ShapeOcTree_initialize(Top.o1, Top.tf1, Top.o2, Top.tf2,
                                      Top.request).node,
               "plain")
          /\ UNCHANGED <<nsolver, heap>>

ShapeOcTreeCollide_Exit ==
  /\ Active("ShapeOcTreeCollide", "after")
  /\ ReturnOnly

OcTreeShapeCollide_Entry ==
  /\ Active("OcTreeShapeCollide", "entry")
  /\ IF Satisfied
     THEN EarlyExit
     ELSE /\ StartTraversal(
               Node("OcTreeShapeCollisionTraversalNode", Top.o1, Top.tf1,
                    Top.o2, Top.tf2, Top.request, TRUE),
               "plain")
          /\ UNCHANGED <<nsolver, heap>>

OcTreeShapeCollide_Exit ==
  /\ Active("OcTreeShapeCollide", "after")
  /\ ReturnOnly

OcTreeCollide_Entry ==
  /\ Active("OcTreeCollide", "entry")
  /\ IF Satisfied
     THEN EarlyExit
     ELSE /\ StartTraversal(
               Node("OcTreeCollisionTraversalNode", Top.o1, Top.tf1,
                    Top.o2, Top.tf2, Top.request, TRUE),
               "plain")
          /\ UNCHANGED <<nsolver, heap>>

OcTreeCollide_Exit ==
  /\ Active("OcTreeCollide", "after")
  /\ ReturnOnly

\* the box built from the first operand, as the mesh-first handlers do
OcTreeBVHCostBox_FromFirst(f) == CostBox(f.o1, f.tf1)

\* the mesh operand of OcTreeBVHCollide and its transform: obj2, tf2
OcTreeBVHCostBox(f) == CostBox(f.o2, f.tf2)

\* a cost pass of OcTreeBVHCollide with the box in first position
OcTreeBVHCostPass_BoxFirst(f) ==
  LET cb == OcTreeBVHCostBox(f)
  IN  [cell |-> Handler("OcTreeShapeCollide", <<"Box<S>">>),
       o1 |-> cb.box, tf1 |-> cb.box_tf, o2 |-> f.o1, tf2 |-> f.tf1]

\* the arguments of the cost pass of OcTreeBVHCollide:
\* OcTreeShapeCollide<Box<S>>(o1, tf1, &box, box_tf, nsolver,
\*                            only_cost_request, result)
OcTreeBVHCostPass(f) ==
  LET cb == OcTreeBVHCostBox(f)
  IN  [cell |-> Handler("OcTreeShapeCollide", <<"Box<S>">>),
       o1 |-> f.o1, tf1 |-> f.tf1, o2 |-> cb.box, tf2 |-> cb.box_tf]

OcTreeBVHCollide_Entry ==
  /\ Active("OcTreeBVHCollide", "entry")
  /\ IF Satisfied
     THEN EarlyExit
     ELSE LET approx == ApproximateCost(Top.request)
          IN  /\ StartTraversal(
                   Node("OcTreeMeshCollisionTraversalNode", Top.o1, Top.tf1,
                        Top.o2, Top.tf2,
                        IF approx THEN NoCostRequest(Top.request)
                                  ELSE Top.request,
                        TRUE),
                   IF approx THEN "approx" ELSE "plain")
              /\ UNCHANGED <<nsolver, heap>>

OcTreeBVHCollide_After ==
  /\ Active("OcTreeBVHCollide", "after")
  /\ IF Top.branch = "approx"
     THEN LET p == OcTreeBVHCostPass(Top)
          IN  /\ CallHandler(p.cell, p.o1, p.tf1, p.o2, p.tf2,
                             OnlyCostRequest(Top.request, result))
              /\ UNCHANGED heap
     ELSE ReturnOnly

OcTreeBVHCollide_Return ==
  /\ Active("OcTreeBVHCollide", "ret")
  /\ ReturnOnly

\* the mesh operand of BVHOcTreeCollide and its transform: obj1, tf1
BVHOcTreeCostBox(f) == CostBox(f.o1, f.tf1)

\* the arguments of the cost pass of BVHOcTreeCollide:
\* ShapeOcTreeCollide<Box<S>>(&box, box_tf, o2, tf2, nsolver,
\*                            only_cost_request, result)
BVHOcTreeCostPass(f) ==
  LET cb == BVHOcTreeCostBox(f)
  IN  [cell |-> Handler("ShapeOcTreeCollide", <<"Box<S>">>),
       o1 |-> cb.box, tf1 |-> cb.box_tf, o2 |-> f.o2, tf2 |-> f.tf2]

BVHOcTreeCollide_Entry ==
  /\ Active("BVHOcTreeCollide", "entry")
  /\ IF Satisfied
     THEN EarlyExit
     ELSE LET approx == ApproximateCost(Top.request)
          IN  /\ StartTraversal(
                   Node("MeshOcTreeCollisionTraversalNode", Top.o1, Top.tf1,
                        Top.o2, Top.tf2,
                        IF approx THEN NoCostRequest(Top.request)
                                  ELSE Top.request,
                        TRUE),
                   IF approx THEN "approx" ELSE "plain")
              /\ UNCHANGED <<nsolver, heap>>

BVHOcTreeCollide_After ==
  /\ Active("BVHOcTreeCollide", "after")
  /\ IF Top.branch = "approx"
     THEN LET p == BVHOcTreeCostPass(Top)
          IN  /\ CallHandler(p.cell, p.o1, p.tf1, p.o2, p.tf2,
                             OnlyCostRequest(Top.request, result))
              /\ UNCHANGED heap
     ELSE ReturnOnly

BVHOcTreeCollide_Return ==
  /\ Active("BVHOcTreeCollide", "ret")
  /\ ReturnOnly

\* ------------------------------------------------------------------------
\* Specification
\* ------------------------------------------------------------------------
Next ==
  \/ CtorNullFill
  \/ CtorAssign
  \/ Call
  \/ collide
  \/ collide_Raise
  \/ ShapeShapeCollide_Entry
  \/ ShapeShapeCollide_Exit
  \/ BVHShapeCollider_Entry
  \/ BVHShapeCollider_BadAlloc
  \/ BVHShapeCollider_After
  \/ BVHShapeCollider_Return
  \/ orientedBVHShapeCollide_Entry
  \/ orientedBVHShapeCollide_After
  \/ orientedBVHShapeCollide_Return
  \/ BVHCollideImpl_run_Entry
  \/ BVHCollideImpl_run_BadAlloc
  \/ BVHCollideImpl_run_Exit
  \/ orientedMeshCollide_Entry
  \/ orientedMeshCollide_Exit
  \/ ShapeOcTreeCollide_Entry
  \/ ShapeOcTreeCollide_Exit
  \/ OcTreeShapeCollide_Entry
  \/ OcTreeShapeCollide_Exit
  \/ OcTreeCollide_Entry
  \/ OcTreeCollide_Exit
  \/ OcTreeBVHCollide_Entry
  \/ OcTreeBVHCollide_After
  \/ OcTreeBVHCollide_Return
  \/ BVHOcTreeCollide_Entry
  \/ BVHOcTreeCollide_After
  \/ BVHOcTreeCollide_Return

Spec == Init /\ [][Next]_vars

\* ========================================================================
\* Properties
\* ========================================================================
Octree == "GEOM_OCTREE"

\* the constructor has finished and no call has been dispatched yet; no
\* step of a call writes collision_matrix
MatrixBuilt == constructed /\ outcome = "idle"

\* the call went through the approximate-cost branch of one of the handlers
\* that have one
TwoPassCells == {"BVHShapeCollider::collide", "OcTreeBVHCollide",
                 "BVHOcTreeCollide"}

\* the mesh operand of the dispatched call and its transform
MeshOfCall ==
  IF call.cell.fn = "OcTreeBVHCollide"
  THEN [mesh |-> call.o2, tf |-> call.tf2]
  ELSE [mesh |-> call.o1, tf |-> call.tf1]

\* the operand of a cost pass that stands where the mesh stood
BoxOfPass(m1, m2) == IF call.cell.fn = "OcTreeBVHCollide" THEN m2 ELSE m1

BoxTfOfPass(t1, t2) == IF call.cell.fn = "OcTreeBVHCollide" THEN t2 ELSE t1

\* ------------------------------------------------------------------------
\* C1: whenever a handler returns (early exit, after its single traversal
\* or after the cost pass, nested or outermost), the value it returns is
\* the number of contacts the result holds at that moment.
C1_ReturnsNumContacts ==
  ret # NoRet => ret.value = numContacts(result)

\* a two-pass call has returned, with contacts found by the first pass
C1_Witness ==
  /\ outcome = "returned"
  /\ Len(passes) = 2
  /\ numContacts(result) > numContacts(call.result)
  /\ ret.value = numContacts(result)

\* ------------------------------------------------------------------------
\* C2: after construction every ordered pair of primitive tags has the
\* ShapeShapeCollide handler of exactly that pair in its cell.
C2_ShapeShapePopulated ==
  MatrixBuilt =>
    \A s1 \in ShapeTags, s2 \in ShapeTags :
      collision_matrix[s1][s2] =
        Handler("ShapeShapeCollide", <<TypeOf(s1), TypeOf(s2)>>)

PopulatedCells(octomap) ==
  LET rules == ShapeShapeAssignments \o BVHShapeAssignments
                 \o BVHBVHAssignments
                 \o (IF octomap THEN OcTreeAssignments ELSE <<>>)
  IN  {<<rules[k][1], rules[k][2], Handler(rules[k][3], rules[k][4])>> :
         k \in DOMAIN rules}

PopulatedWithOctomap == PopulatedCells(TRUE)

PopulatedWithoutOctomap == PopulatedCells(FALSE)

\* ------------------------------------------------------------------------
\* C4: after construction every cell is the empty sentinel or a handler the
\* population assigned to that cell, never unwritten storage; a dispatch on
\* an empty cell ends as Unsupported, runs no handler and no traversal and
\* leaves the result as the caller passed it.
C4_CellsInitialisedAndEmptyUnsupported ==
  /\ MatrixBuilt =>
       \A t1 \in Tags, t2 \in Tags :
         LET cell == collision_matrix[t1][t2]
         IN  /\ cell # UNINIT
             /\ \/ cell = NULL
                \/ <<t1, t2, cell>> \in
                     (IF have_octomap THEN PopulatedWithOctomap
                                      ELSE PopulatedWithoutOctomap)
  /\ outcome # "idle" =>
       /\ call.cell = NULL <=> outcome = "Unsupported"
       /\ call.cell = NULL =>
            /\ stack = <<>>
            /\ passes = <<>>
            /\ result = call.result
            /\ ret = NoRet

\* two meshes of different BV types were dispatched with a result that
\* already held contacts
C4_Witness ==
  /\ outcome = "Unsupported"
  /\ call.o1.kind = "BV_AABB"
  /\ call.o2.kind = "BV_OBB"
  /\ numContacts(result) > 0
  /\ result = call.result

\* ------------------------------------------------------------------------
\* C5: the cells with GEOM_OCTREE as row or column are populated exactly in
\* a build with octree support: with it, octree x shape, shape x octree,
\* octree x octree, octree x mesh and mesh x octree all hold their handler;
\* without it all of them are empty and an octree x octree dispatch is
\* Unsupported.
C5_OctreeCellsFollowBuildFlag ==
  /\ MatrixBuilt =>
       IF have_octomap
       THEN /\ \A s \in ShapeTags :
                 /\ collision_matrix[Octree][s] =
                      Handler("OcTreeShapeCollide", <<TypeOf(s)>>)
                 /\ collision_matrix[s][Octree] =
                      Handler("ShapeOcTreeCollide", <<TypeOf(s)>>)
            /\ collision_matrix[Octree][Octree] =
                 Handler("OcTreeCollide", <<>>)
            /\ \A b \in BVTags :
                 /\ collision_matrix[Octree][b] =
                      Handler("OcTreeBVHCollide", <<TypeOf(b)>>)
                 /\ collision_matrix[b][Octree] =
                      Handler("BVHOcTreeCollide", <<TypeOf(b)>>)
       ELSE \A t \in Tags :
              /\ collision_matrix[Octree][t] = NULL
              /\ collision_matrix[t][Octree] = NULL
  /\ (outcome # "idle" /\ call.o1.kind = Octree /\ call.o2.kind = Octree) =>
       (outcome = "Unsupported" <=> ~have_octomap)

\* two octrees were dispatched in a build without octree support
C5_Witness ==
  /\ ~have_octomap
  /\ outcome = "Unsupported"
  /\ call.o1.kind = Octree
  /\ call.o2.kind = Octree

\* ------------------------------------------------------------------------
\* the shape of a finished two-pass call: a first traversal without cost,
\* then a cost pass on a box
TwoPassesInOrder ==
  /\ Len(passes) = 2
  /\ ~passes[1].node.request.enable_cost
  /\ passes[1].node.model1.id # "box"
  /\ passes[1].node.model2.id # "box"
  /\ passes[2].node.request.enable_cost
  /\ "box" \in {passes[2].node.model1.id, passes[2].node.model2.id}

\* the request asks for approximate cost and is not satisfied on entry
ApproximateCostAsked ==
  /\ call.request.enable_cost
  /\ call.request.use_approximate_cost
  /\ ~isSatisfied(call.request, call.result)

\* C6 (as stated): every handler of a pair with a mesh or an octree, asked
\* for approximate cost and not satisfied on entry, has run two passes in
\* order when it returns: a no-cost traversal, then the box-based cost pass.
C6_TwoPassesForEveryMeshOrOctreePair ==
  (/\ outcome = "returned"
   /\ {call.o1.kind, call.o2.kind} \cap (BVTags \cup {Octree}) # {}
   /\ ApproximateCostAsked)
  => TwoPassesInOrder

\* C6 (amended): the BVH x Shape handlers (generic and oriented),
\* OcTreeBVHCollide and BVHOcTreeCollide, asked for approximate cost and not
\* satisfied on entry, run two passes in order: a no-cost traversal, then
\* the box-based cost pass; BVHCollide, OcTreeShapeCollide,
\* ShapeOcTreeCollide and OcTreeCollide run one traversal with the caller's
\* request.
C6_TwoPassesForMeshShapeAndMeshOctree ==
  (outcome = "returned" /\ ApproximateCostAsked) =>
    IF call.cell.fn \in TwoPassCells
    THEN TwoPassesInOrder
    ELSE /\ Len(passes) = 1
         /\ passes[1].node.request = call.request

\* a mesh-against-octree call ran its two passes and the cost pass added a
\* cost source
C6_Witness ==
  /\ outcome = "returned"
  /\ call.cell.fn = "BVHOcTreeCollide"
  /\ ApproximateCostAsked
  /\ TwoPassesInOrder
  /\ Len(result.cost_sources) > Len(call.result.cost_sources)

\* ------------------------------------------------------------------------
\* C7: on the approximate-cost path of the BVH x Shape handlers,
\* OcTreeBVHCollide and BVHOcTreeCollide, the first traversal runs with the
\* caller's request except for enable_cost, which is false, and the cost
\* sources of the result at the end of the first pass are those at entry.
C7_FirstPassNoCost ==
  (/\ call.cell.fn \in TwoPassCells
   /\ ApproximateCost(call.request)
   /\ Len(passes) >= 1)
  => /\ passes[1].node.request.enable_cost = FALSE
     /\ \A fld \in DOMAIN call.request \ {"enable_cost"} :
          passes[1].node.request[fld] = call.request[fld]
     /\ passes[1].before = call.result
     /\ passes[1].after.cost_sources = call.result.cost_sources

\* the first pass of an octree-against-mesh call added contacts to a result
\* that already held a cost source
C7_Witness ==
  /\ call.cell.fn = "OcTreeBVHCollide"
  /\ ApproximateCost(call.request)
  /\ Len(passes) = 1
  /\ call.result.cost_sources # <<>>
  /\ numContacts(passes[1].after) > numContacts(call.result)

\* ------------------------------------------------------------------------
\* C8: the second pass runs with num_max_contacts = the number of contacts
\* after the first pass, enable_contact = false, enable_cost = true,
\* use_approximate_cost = false and the caller's num_max_cost_sources; it
\* leaves the contacts as the first pass left them and changes nothing of
\* the result but the cost sources.
C8_CostPassSuppressesContacts ==
  Len(passes) = 2 =>
    LET r == passes[2].node.request
    IN  /\ r.enable_contact = FALSE
        /\ r.num_max_contacts = numContacts(passes[1].after)
        /\ r.enable_cost = TRUE
        /\ r.use_approximate_cost = FALSE
        /\ r.num_max_cost_sources = call.request.num_max_cost_sources
        /\ passes[2].before = passes[1].after
        /\ passes[2].after.contacts = passes[1].after.contacts
        /\ passes[2].after.cached_gjk_guess = passes[1].after.cached_gjk_guess
        /\ result.contacts = passes[1].after.contacts

\* a cost pass added a cost source while the contact cap of the caller was
\* not reached
C8_Witness ==
  /\ outcome = "returned"
  /\ Len(passes) = 2
  /\ Len(passes[2].after.cost_sources) > Len(passes[2].before.cost_sources)
  /\ numContacts(result) > 0
  /\ numContacts(result) < call.request.num_max_contacts

\* ------------------------------------------------------------------------
\* the box of a cost pass is the one built from the root BV of the mesh of
\* the call and the transform of that mesh, with the cost_density and
\* thresholds of that mesh
IsCostBoxOfMesh(box, box_tf) ==
  LET m == MeshOfCall
  IN  /\ box.id = "box"
      /\ box.side = BVNode(m.mesh.kind, 0, "local")
      /\ box_tf = Transform(m.tf.base, BVNode(m.mesh.kind, 0, "local"))
      /\ box.cost_density = m.mesh.cost_density
      /\ box.threshold_occupied = m.mesh.threshold_occupied
      /\ box.threshold_free = m.mesh.threshold_free

\* C9: in every approximate-cost path the cost box is built from bvs[0] of
\* the original mesh operand and that mesh's own transform, and carries the
\* cost_density, threshold_occupied and threshold_free of the mesh operand
\* (operand 1 for BVH x Shape and BVH x Octree, operand 2 for Octree x BVH).
C9_CostBoxFromMesh ==
  /\ Len(stack) = 2 =>
       IsCostBoxOfMesh(BoxOfPass(stack[2].o1, stack[2].o2),
                       BoxTfOfPass(stack[2].tf1, stack[2].tf2))
  /\ Len(passes) = 2 =>
       IsCostBoxOfMesh(BoxOfPass(passes[2].node.model1, passes[2].node.model2),
                       BoxTfOfPass(passes[2].node.tf1, passes[2].node.tf2))

\* an octree-against-mesh call produced a cost source from the box of the
\* mesh
C9_Witness ==
  /\ call.cell.fn = "OcTreeBVHCollide"
  /\ Len(passes) = 2
  /\ \E i \in DOMAIN result.cost_sources :
       /\ result.cost_sources[i].o2 = "box"
       /\ result.cost_sources[i].side2 = call.o2.bv0
       /\ result.cost_sources[i].cost_density =
            call.o1.cost_density * call.o2.cost_density

\* ------------------------------------------------------------------------
\* C10: in ShapeShapeCollide with enable_cached_gjk_guess, once the entry
\* test is passed the solver holds request.cached_gjk_guess before the leaf
\* test runs, and when the handler returns after its traversal
\* result.cached_gjk_guess is the guess the solver holds after the
\* traversal.
C10_CachedGuessInAndOut ==
  /\ (/\ outcome = "running"
      /\ stack # <<>>
      /\ Top.fn = "ShapeShapeCollide"
      /\ Top.pc = "collide"
      /\ Top.request.enable_cached_gjk_guess)
     => /\ nsolver.enable_cached_guess
        /\ getCachedGuess(nsolver) = Top.request.cached_gjk_guess
  /\ (/\ outcome = "returned"
      /\ call.cell.fn = "ShapeShapeCollide"
      /\ call.request.enable_cached_gjk_guess
      /\ Len(passes) = 1)
     => /\ result.cached_gjk_guess = getCachedGuess(nsolver)
        /\ result.cached_gjk_guess \in {GuessAfter(h) : h \in 0..1}

\* a shape pair was tested with a cached guess and the guess the traversal
\* left in the solver reached the result
C10_Witness ==
  /\ outcome = "returned"
  /\ call.cell.fn = "ShapeShapeCollide"
  /\ call.request.enable_cached_gjk_guess
  /\ Len(passes) = 1
  /\ result.cached_gjk_guess = GuessAfter(1)

\* ------------------------------------------------------------------------
\* the traversal nodes of the generic mesh paths
GenericMeshNodes ==
  {"MeshShapeCollisionTraversalNode", "MeshCollisionTraversalNode"}

\* C12: no handler modifies a geometry operand or the caller's request:
\* during and after a call the caller's geometries are what they were before
\* it, the outermost handler still holds the caller's operands, transforms
\* and request, and every traversal of a generic mesh path ran on private
\* copies of the models (never on a geometry of the caller) with the
\* identity in place of the caller's transform.
C12_OperandsAndRequestUntouched ==
  outcome \in {"running", "returned"} =>
    /\ world = Scene
    /\ call.o1 = Scene[call.o1.kind]
    /\ call.o2 = Scene[call.o2.kind]
    /\ stack # <<>> =>
         /\ stack[1].o1 = call.o1 /\ stack[1].tf1 = call.tf1
         /\ stack[1].o2 = call.o2 /\ stack[1].tf2 = call.tf2
         /\ stack[1].request = call.request
    /\ \A i \in DOMAIN passes :
         LET n == passes[i].node
         IN  n.kind \in GenericMeshNodes =>
               /\ n.model1.id \notin SceneTags
               /\ n.tf1 = Identity
               /\ n.kind = "MeshCollisionTraversalNode" =>
                    /\ n.model2.id \notin SceneTags
                    /\ n.tf2 = Identity

\* a call on two AABB meshes has returned after a traversal that ran on
\* refitted copies of both
C12_Witness ==
  /\ outcome = "returned"
  /\ call.cell.fn = "BVHCollide"
  /\ call.o1.kind = "BV_AABB"
  /\ Len(passes) = 1
  /\ passes[1].node.kind = "MeshCollisionTraversalNode"
  /\ passes[1].node.model1.bv0.frame = "tf1"
  /\ passes[1].node.model2.bv0.frame = "tf2"
  /\ numContacts(result) > numContacts(call.result)

\* ========================================================================
\* Two calls in parallel on one narrow-phase solver
\* ========================================================================
\* the matrix the constructor leaves behind
BuiltMatrix(octomap) ==
  LET list == Assignments(octomap)
      At(t1, t2) == {k \in DOMAIN list : list[k][1] = t1 /\ list[k][2] = t2}
  IN  [t1 \in Tags |->
        [t2 \in Tags |->
          IF At(t1, t2) = {}
          THEN NULL
          ELSE LET k == CHOOSE k \in At(t1, t2) :
                          \A l \in At(t1, t2) : l <= k
               IN  Handler(list[k][3], list[k][4])]]

Threads == {1, 2}

\* the requests of the parallel callers: all of them with
\* enable_cached_gjk_guess = false
ParRequests ==
  {r \in Requests : /\ ~r.enable_cached_gjk_guess
                    /\ r.enable_contact
                    /\ ~r.use_approximate_cost
                    /\ r.num_max_cost_sources = MaxCostSources}

\* a call of one thread: its own request, result and traversal node; wrote
\* is the set of fields of the shared solver the call has written, seed the
\* guess its narrow phase started from
Thread(req) ==
  [pc |-> "entry", request |-> req,
   result |-> CollisionResult(<<>>, <<>>, "guess_of_result"),
   node |-> NoNode, wrote |-> {}, seed |-> "none"]

parFixed ==
  <<ctorVars, call, stack, result, heap, passes, outcome, ret, world,
    fitVars>>

ParInit ==
  /\ have_octomap \in BOOLEAN
  /\ collision_matrix = BuiltMatrix(have_octomap)
  /\ ctor = [phase |-> "done", i |-> NODE_COUNT, j |-> NODE_COUNT,
             k |-> Len(Assignments(have_octomap))]
  /\ call = NoCall
  /\ stack = <<>>
  /\ result = CollisionResult(<<>>, <<>>, "none")
  /\ nsolver = FreshSolver
  /\ heap = {}
  /\ passes = <<>>
  /\ outcome = "idle"
  /\ ret = NoRet
  /\ world = Scene
  /\ threads \in [Threads -> {Thread(r) : r \in ParRequests}]
  /\ fitterBV = "BV"
  /\ fitter = ClearedFitter
  /\ memory = NoMemory
  /\ fitted = NoFit

\* the fields of the solver the setup of ShapeShapeCollide writes:
\* enableCachedGuess in both branches, setCachedGuess in the first
ShapeShapeSolverWrites(req) ==
  IF req.enable_cached_gjk_guess
  THEN {"enable_cached_guess", "cached_guess"}
  ELSE {"enable_cached_guess"}

\* ShapeShapeCollide up to initialize, run by thread t on the shared shapes
ParEntry(t) ==
  LET me == threads[t]
      o1 == Scene["GEOM_SPHERE"]
      o2 == Scene["GEOM_SPHERE"]
  IN  /\ me.pc = "entry"
      /\ collision_matrix[o1.kind][o2.kind].fn = "ShapeShapeCollide"
      /\ IF isSatisfied(me.request, me.result)
         THEN /\ threads' = [threads EXCEPT ![t].pc = "done"]
              /\ UNCHANGED nsolver
         ELSE /\ nsolver' = ShapeShapeSolverSetup(nsolver, me.request)
              /\ threads' =
                   [threads EXCEPT
                      ![t].pc = "collide",
                      ![t].wrote = @ \cup ShapeShapeSolverWrites(me.request),
                      ![t].node =
                        Node("ShapeCollisionTraversalNode", o1,
                             Transform("tf1", NoBV), o2,
                             Transform("tf2", NoBV), me.request, TRUE)]
      /\ UNCHANGED parFixed

\* collide(&node) of thread t: with cached guesses enabled in the solver the
\* narrow phase starts from the stored guess and stores its own
ParCollide(t) ==
  LET me == threads[t]
  IN  /\ me.pc = "collide"
      /\ \E h \in 0..MaxHits(me.node) :
           /\ nsolver' =
                IF nsolver.enable_cached_guess
                THEN setCachedGuess(nsolver, GuessAfter(h))
                ELSE nsolver
           /\ threads' =
                [threads EXCEPT
                   ![t].pc = "after",
                   ![t].result = Traverse(me.node, me.result, h),
                   ![t].seed = IF nsolver.enable_cached_guess
                               THEN getCachedGuess(nsolver)
                               ELSE "none",
                   ![t].wrote = IF nsolver.enable_cached_guess
                                THEN @ \cup {"cached_guess"}
                                ELSE @]
      /\ UNCHANGED parFixed

\* the rest of ShapeShapeCollide
ParExit(t) ==
  LET me == threads[t]
  IN  /\ me.pc = "after"
      /\ threads' =
           [threads EXCEPT
              ![t].pc = "done",
              ![t].result =
                ShapeShapeStoreGuess(me.result, nsolver, me.request)]
      /\ UNCHANGED <<nsolver, parFixed>>

ParNext ==
  \/ \E t \in Threads : ParEntry(t)
  \/ \E t \in Threads : ParCollide(t)
  \/ \E t \in Threads : ParExit(t)

ParSpec == ParInit /\ [][ParNext]_vars

\* C11: two calls in parallel on one solver, both with
\* enable_cached_gjk_guess = false, write to no shared state: no call
\* writes a field of the solver, and the narrow phase of a call never
\* starts from a guess stored in the solver.
C11_ParallelCallsShareNothing ==
  \A t \in DOMAIN threads :
    /\ threads[t].wrote = {}
    /\ threads[t].seed = "none"

\* ========================================================================
\* BVFitter<BV>, the generic fitter
\* ========================================================================
\* largest coordinate of a vertex
MaxCoord == 1
\* largest number of entries of primitive_indices
MaxPrims == 2

\* the number of vertices of the model
NumVertices == 3

ModelTypes ==
  {"BVH_MODEL_UNKNOWN", "BVH_MODEL_TRIANGLES", "BVH_MODEL_POINTCLOUD"}

\* BV bv: the default-constructed bounding volume encloses nothing
Infinity == 100

EmptyBV == [min |-> Infinity, max |-> -Infinity]

\* bv += p
AddPoint(bv, p) ==
  [min |-> IF p < bv.min THEN p ELSE bv.min,
   max |-> IF p > bv.max THEN p ELSE bv.max]

Encloses(bv, p) == bv.min <= p /\ p <= bv.max

\* the arrays of the caller: the vertices v with their previous positions
\* pv (the low vertices come from above the current ones, the high
\* vertices from below), the triangles t, of which the last names a vertex
\* that does not exist, and the primitive_indices it passes to fit; no
\* index is inside the array behind a null or an indeterminate pointer
Memory(v, prims) ==
  [NULL |-> <<>>,
   WILD |-> <<>>,
   v |-> v,
   pv |-> [i \in 1..NumVertices |-> 3 * (MaxCoord - v[i]) - 1],
   t |-> <<<<0, 1, 2>>, <<2, 1, 1>>, <<1, 2, NumVertices>>>>,
   primitive_indices |-> prims]

\* the arrays of a second model next to the first: its vertices v2 and its
\* triangles t2, of which the last names a vertex that does not exist
SecondModel(v) ==
  [v2 |-> [i \in 1..NumVertices |-> MaxCoord - v[i]],
   t2 |-> <<<<1, 0, 2>>, <<0, 0, 1>>, <<2, 1, NumVertices>>>>]

\* the vertex and triangle arrays the caller can hand to set
VertexArrays == {"v", "v2"} \cap DOMAIN memory
TriangleArrays == {"t", "t2"} \cap DOMAIN memory

\* the primitive_indices a caller passes; num_primitives is their number;
\* the last index lies behind the last vertex and the last triangle
PrimitiveIndices ==
  UNION {[1..n -> 0..NumVertices] : n \in 0..MaxPrims}

Memories ==
  {Memory(v, prims) : v \in [1..NumVertices -> 0..MaxCoord],
                      prims \in PrimitiveIndices}

\* a caller with two models, in one layout of the vertices
TwoModelMemories ==
  {Memory(v, prims) @@ SecondModel(v) :
     v \in {[i \in 1..NumVertices |-> IF i = 1 THEN MaxCoord ELSE 0]},
     prims \in PrimitiveIndices}

\* the primary template and the explicit specialisations of BVFitter
FitterBVs == {"BV", "OBBd", "RSSd", "kIOSd", "OBBRSSd"}

\* the value a read outside an array gives when it gives one
Garbage == 50

InRange(array, i) == i >= 0 /\ i < Len(memory[array])

\* vertices[i] / prev_vertices[i]: acc collects the volume, the cells read
\* and whether a read left its array
ReadPoint(acc, array, i) ==
  [bv |-> AddPoint(acc.bv, IF InRange(array, i) THEN memory[array][i + 1]
                                                ELSE Garbage),
   reads |-> acc.reads \cup {<<array, i>>},
   oob |-> acc.oob \/ ~InRange(array, i)]

\* Triangle t = tri_indices[i]
ReadTriangle(array, i) ==
  IF InRange(array, i) THEN memory[array][i + 1] ELSE <<-1, -1, -1>>

\* the body of the TRIANGLES loop for one primitive, without the previous
\* positions
FitTriangle_CurrentOnly(f, acc, p) ==
  LET t == ReadTriangle(f.tri_indices, p)
      a == [acc EXCEPT !.reads = @ \cup {<<f.tri_indices, p>>},
                       !.oob = @ \/ ~InRange(f.tri_indices, p)]
  IN  ReadPoint(ReadPoint(ReadPoint(a, f.vertices, t[1]),
                          f.vertices, t[2]), f.vertices, t[3])

\* Triangle t = tri_indices[primitive_indices[i]];
\* bv += vertices[t[0]]; bv += vertices[t[1]]; bv += vertices[t[2]];
\* if(prev_vertices) { bv += prev_vertices[t[0]]; ... }
FitTriangle(f, acc, p) ==
  LET t == ReadTriangle(f.tri_indices, p)
      a == [acc EXCEPT !.reads = @ \cup {<<f.tri_indices, p>>},
                       !.oob = @ \/ ~InRange(f.tri_indices, p)]
      cur == ReadPoint(ReadPoint(ReadPoint(a, f.vertices, t[1]),
                                 f.vertices, t[2]), f.vertices, t[3])
  IN  IF f.prev_vertices # "NULL"
      THEN ReadPoint(ReadPoint(ReadPoint(cur, f.prev_vertices, t[1]),
                               f.prev_vertices, t[2]),
                     f.prev_vertices, t[3])
      ELSE cur

\* the body of the POINTCLOUD loop reading the first vertex whatever the
\* primitive
FitPoint_FirstVertex(f, acc, p) ==
  LET cur == ReadPoint(acc, f.vertices, 0)
  IN  IF f.prev_vertices # "NULL"
      THEN ReadPoint(cur, f.prev_vertices, 0)
      ELSE cur

\* bv += vertices[primitive_indices[i]];
\* if(prev_vertices) bv += prev_vertices[primitive_indices[i]];
FitPoint(f, acc, p) ==
  LET cur == ReadPoint(acc, f.vertices, p)
  IN  IF f.prev_vertices # "NULL"
      THEN ReadPoint(cur, f.prev_vertices, p)
      ELSE cur

\* for(int i = 0; i < num_primitives; ++i) of either branch
RECURSIVE FitLoop(_, _, _, _)
FitLoop(f, acc, prims, i) ==
  IF i > Len(prims)
  THEN acc
  ELSE FitLoop(f,
               IF f.type = "BVH_MODEL_TRIANGLES"
               THEN FitTriangle(f, acc, prims[i])
               ELSE FitPoint(f, acc, prims[i]),
               prims, i + 1)

\* a fit that treats every model type as a point cloud
fit_NoTypeTest(f, prims) ==
  FitLoop([f EXCEPT !.type = "BVH_MODEL_POINTCLOUD"],
          [bv |-> EmptyBV, reads |-> {}, oob |-> FALSE], prims, 1)

\* a fit whose loops start at the second primitive: for(int i = 1; ...)
fit_FromSecond(f, prims) ==
  IF f.type \in {"BVH_MODEL_TRIANGLES", "BVH_MODEL_POINTCLOUD"}
  THEN FitLoop(f, [bv |-> EmptyBV, reads |-> {}, oob |-> FALSE],
               prims, 2)
  ELSE [bv |-> EmptyBV, reads |-> {}, oob |-> FALSE]

\* BV fit(unsigned int* primitive_indices, int num_primitives)
fit(f, prims) ==
  IF f.type \in {"BVH_MODEL_TRIANGLES", "BVH_MODEL_POINTCLOUD"}
  THEN FitLoop(f, [bv |-> EmptyBV, reads |-> {}, oob |-> FALSE],
               prims, 1)
  ELSE [bv |-> EmptyBV, reads |-> {}, oob |-> FALSE]

\* OBBd / RSSd / kIOSd / OBBRSSd fit(primitive_indices, num_primitives):
\* declared in the header and defined elsewhere; the volume around every
\* referenced point, previous positions included when prev_vertices is
\* set, and the default volume for a model that is neither TRIANGLES nor
\* POINTCLOUD
fitSpecialised(f, prims) ==
  IF f.type \in {"BVH_MODEL_TRIANGLES", "BVH_MODEL_POINTCLOUD"}
  THEN FitLoop(f, [bv |-> EmptyBV, reads |-> {}, oob |-> FALSE],
               prims, 1)
  ELSE [bv |-> EmptyBV, reads |-> {}, oob |-> FALSE]

\* a set of the OBBd specialisation that leaves prev_vertices as it was
set_PrevKeptByOBB(bv, f, vertices_, tri_indices_, type_) ==
  IF bv = "OBBd"
  THEN [f EXCEPT !.vertices = vertices_, !.tri_indices = tri_indices_,
                 !.type = type_]
  ELSE [f EXCEPT !.vertices = vertices_, !.prev_vertices = "NULL",
                 !.tri_indices = tri_indices_, !.type = type_]

\* void set(Vector3d* vertices_, Triangle* tri_indices_, BVHModelType type_)
\* { vertices = vertices_; prev_vertices = NULL;
\*   tri_indices = tri_indices_; type = type_; }
\* the same four assignments in the primary template and in the
\* specialisations for OBBd, RSSd, kIOSd and OBBRSSd
set(bv, f, vertices_, tri_indices_, type_) ==
  [f EXCEPT !.vertices = vertices_, !.prev_vertices = "NULL",
            !.tri_indices = tri_indices_, !.type = type_]

\* void set(Vector3d* vertices_, Vector3d* prev_vertices_,
\*          Triangle* tri_indices_, BVHModelType type_)
setDeformable(bv, f, vertices_, prev_vertices_, tri_indices_, type_) ==
  [f EXCEPT !.vertices = vertices_, !.prev_vertices = prev_vertices_,
            !.tri_indices = tri_indices_, !.type = type_]

\* a clear that leaves the model type as it was
clear_TypeKept(bv, f) ==
  [f EXCEPT !.vertices = "NULL", !.prev_vertices = "NULL",
            !.tri_indices = "NULL"]

\* void clear() { vertices = NULL; prev_vertices = NULL;
\*                tri_indices = NULL; type = BVH_MODEL_UNKNOWN; }
\* the same in the primary template and in the four specialisations
clear(bv, f) ==
  [f EXCEPT !.vertices = "NULL", !.prev_vertices = "NULL",
            !.tri_indices = "NULL", !.type = "BVH_MODEL_UNKNOWN"]

\* BVFitter declares no constructor: a new fitter holds indeterminate
\* pointers and an indeterminate type
FreshFitters ==
  {[vertices |-> "WILD", prev_vertices |-> "WILD", tri_indices |-> "WILD",
    type |-> ty] : ty \in ModelTypes}

fitFixed ==
  <<ctorVars, call, stack, result, nsolver, heap, passes, outcome, ret,
    world, threads, fitterBV>>

\* no CollisionFunctionMatrix is constructed where only a fitter is used
NoMatrix == <<>>

\* a generic fitter on every layout of one model, and a fitter of every
\* instantiation on a caller with two models
FitInit ==
  /\ have_octomap = FALSE
  /\ collision_matrix = NoMatrix
  /\ ctor = [phase |-> "none", i |-> 1, j |-> 1, k |-> 1]
  /\ call = NoCall
  /\ stack = <<>>
  /\ result = CollisionResult(<<>>, <<>>, "none")
  /\ nsolver = FreshSolver
  /\ heap = {}
  /\ passes = <<>>
  /\ outcome = "idle"
  /\ ret = NoRet
  /\ world = Scene
  /\ threads = NoThreads
  /\ fitterBV \in FitterBVs
  /\ fitter \in FreshFitters
  /\ \/ fitterBV = "BV" /\ memory \in Memories
     \/ memory \in TwoModelMemories
  /\ fitted = NoFit

\* set(vertices_, tri_indices_, type_); before is the prev_vertices the
\* fitter held when set was called
FitterSet ==
  /\ \E va \in VertexArrays, ta \in TriangleArrays, ty \in ModelTypes :
       /\ fitter' = set(fitterBV, fitter, va, ta, ty)
       /\ fitted' = [op |-> "set",
                     args |-> [vertices |-> va, tri_indices |-> ta,
                               type |-> ty],
                     before |-> fitter.prev_vertices]
  /\ UNCHANGED <<memory, fitFixed>>

\* set(vertices_, prev_vertices_, tri_indices_, type_)
FitterSetDeformable ==
  /\ \E va \in VertexArrays, pa \in {"pv"}, ta \in TriangleArrays,
        ty \in ModelTypes :
       /\ fitter' = setDeformable(fitterBV, fitter, va, pa, ta, ty)
       /\ fitted' = [op |-> "set_deformable"]
  /\ UNCHANGED <<memory, fitFixed>>

\* clear()
FitterClear ==
  /\ fitter' = clear(fitterBV, fitter)
  /\ fitted' = [op |-> "clear"]
  /\ UNCHANGED <<memory, fitFixed>>

\* fit(primitive_indices, num_primitives) on the caller's indices; a read
\* outside an array kills the process or goes on with whatever value is
\* there; since is the last operation on the fitter that was not a fit
FitterFit ==
  /\ LET prims == memory.primitive_indices
         r == IF fitterBV = "BV" THEN fit(fitter, prims)
                                 ELSE fitSpecialised(fitter, prims)
         since == IF fitted.op = "fit" THEN fitted.since ELSE fitted
     IN  \E killed \in IF r.oob THEN BOOLEAN ELSE {FALSE} :
           fitted' =
             IF killed
             THEN [op |-> "fit", primitive_indices |-> prims,
                   outcome |-> "killed", bv |-> EmptyBV,
                   reads |-> r.reads, oob |-> r.oob, since |-> since]
             ELSE [op |-> "fit", primitive_indices |-> prims,
                   outcome |-> "returned", bv |-> r.bv,
                   reads |-> r.reads, oob |-> r.oob, since |-> since]
  /\ UNCHANGED <<fitter, memory, fitFixed>>

FitNext ==
  \/ FitterSet
  \/ FitterSetDeformable
  \/ FitterClear
  \/ FitterFit

FitSpec == FitInit /\ [][FitNext]_vars

\* ------------------------------------------------------------------------
\* Properties of the fitter
\* ------------------------------------------------------------------------
\* the last operation was a fit that returned, on a fitter holding a model
\* of type ty
Fitted(ty) ==
  /\ fitted.op = "fit"
  /\ fitted.outcome = "returned"
  /\ fitter.type = ty

\* every primitive index lies inside the array fit indexes with it
Consistent(prims) ==
  \A k \in DOMAIN prims :
    IF fitter.type = "BVH_MODEL_TRIANGLES"
    THEN /\ prims[k] < Len(memory[fitter.tri_indices])
         /\ \A c \in 1..3 :
              memory[fitter.tri_indices][prims[k] + 1][c]
                < Len(memory[fitter.vertices])
    ELSE prims[k] < Len(memory[fitter.vertices])

\* the vertex indices primitive p refers to
VerticesOf(p) ==
  IF fitter.type = "BVH_MODEL_TRIANGLES"
  THEN {memory[fitter.tri_indices][p + 1][c] : c \in 1..3}
  ELSE {p}

\* C13: after set, fit(primitive_indices, n) returns a BV that encloses
\* every referenced point: the three vertices of every referenced triangle
\* of a TRIANGLES model, every referenced vertex of a POINTCLOUD model.
C13_FitEnclosesReferencedPoints ==
  \A ty \in {"BVH_MODEL_TRIANGLES", "BVH_MODEL_POINTCLOUD"} :
    (Fitted(ty) /\ Consistent(fitted.primitive_indices)) =>
      \A k \in DOMAIN fitted.primitive_indices :
        \A i \in VerticesOf(fitted.primitive_indices[k]) :
          Encloses(fitted.bv, memory[fitter.vertices][i + 1])

\* a point cloud was fitted over two vertices at different places
C13_Witness ==
  /\ Fitted("BVH_MODEL_POINTCLOUD")
  /\ fitter.prev_vertices = "NULL"
  /\ fitted.primitive_indices = <<2, 1>>
  /\ memory.v[3] < memory.v[2]
  /\ fitted.bv = [min |-> memory.v[3], max |-> memory.v[2]]

\* C14: a fitter set with prev_vertices returns a BV that encloses the
\* current and the previous position of every vertex of every referenced
\* primitive, for TRIANGLES and for POINTCLOUD models.
C14_DeformableFitEnclosesBothFrames ==
  \A ty \in {"BVH_MODEL_TRIANGLES", "BVH_MODEL_POINTCLOUD"} :
    (/\ Fitted(ty)
     /\ fitter.prev_vertices # "NULL"
     /\ Consistent(fitted.primitive_indices)) =>
      \A k \in DOMAIN fitted.primitive_indices :
        \A i \in VerticesOf(fitted.primitive_indices[k]) :
          /\ Encloses(fitted.bv, memory[fitter.vertices][i + 1])
          /\ Encloses(fitted.bv, memory[fitter.prev_vertices][i + 1])

\* a deformable triangle model was fitted over its second triangle and the
\* previous positions widened the volume on both sides
C14_Witness ==
  /\ Fitted("BVH_MODEL_TRIANGLES")
  /\ fitter.prev_vertices = "pv"
  /\ fitted.primitive_indices = <<1>>
  /\ \E i \in {2, 3} : fitted.bv.min = memory.pv[i]
  /\ \E i \in {2, 3} : fitted.bv.max = memory.pv[i]
  /\ \A i \in {2, 3} :
       fitted.bv.min < memory.v[i] /\ memory.v[i] < fitted.bv.max

\* C15: with a model type that is neither TRIANGLES nor POINTCLOUD fit
\* returns the default-constructed BV for any primitive_indices and reads
\* no vertex and no triangle.
C15_UnknownTypeGivesDefaultBV ==
  (fitted.op = "fit" /\ fitter.type = "BVH_MODEL_UNKNOWN") =>
    /\ fitted.outcome = "returned"
    /\ fitted.bv = EmptyBV
    /\ fitted.reads = {}

\* a fitter set with vertices, triangles and the type UNKNOWN was asked to
\* fit two primitives
C15_Witness ==
  /\ Fitted("BVH_MODEL_UNKNOWN")
  /\ fitter.vertices = "v"
  /\ fitter.tri_indices = "t"
  /\ Len(fitted.primitive_indices) = 2

\* C16: a fit with a primitive index outside the triangle or vertex array,
\* or with a triangle naming a vertex outside the vertex array, fails with
\* InvalidGeometry and returns no BV.
C16_InconsistentInputsRejected ==
  (fitted.op = "fit" /\ fitted.oob) => fitted.outcome = "InvalidGeometry"

\* ------------------------------------------------------------------------
\* a cap on the contacts that no traversal reaches
NoCap == MaxContacts + MaxLeafHits + 1

Unbounded(node) == [node EXCEPT !.request.num_max_contacts = NoCap]

IsPrefix(s, t) == Len(s) <= Len(t) /\ s = SubSeq(t, 1, Len(s))

Smaller(a, b) == IF a < b THEN a ELSE b

Larger(a, b) == IF a > b THEN a ELSE b

\* C17: for the same geometries, transforms and traversal order the
\* contacts reported with num_max_contacts = k are exactly the first k
\* contacts, same records in the same order, of those reported without a
\* cap: whatever number of intersecting leaf pairs a traversal of a call
\* meets, its contacts are a prefix of the contacts of the uncapped
\* traversal of the same node on the same result, cut at the cap.
C17_CappedContactsArePrefix ==
  outcome = "returned" =>
    \A i \in DOMAIN passes :
      LET p == passes[i]
          cap == Larger(p.node.request.num_max_contacts,
                        numContacts(p.before))
      IN  /\ \E h \in 0..MaxHits(p.node) :
               p.after = Traverse(p.node, p.before, h)
          /\ \A h \in 0..MaxHits(p.node) :
               LET capped == Traverse(p.node, p.before, h).contacts
                   all == Traverse(Unbounded(p.node), p.before, h).contacts
               IN  /\ IsPrefix(capped, all)
                   /\ Len(capped) = Smaller(cap, Len(all))

\* a traversal with cost enabled and a cap of one contact went over two
\* intersecting leaf pairs and kept the first contact
C17_Witness ==
  /\ outcome = "returned"
  /\ Len(passes) = 1
  /\ passes[1].node.request.num_max_contacts = 1
  /\ passes[1].node.request.enable_cost
  /\ numContacts(passes[1].before) = 0
  /\ passes[1].after = Traverse(passes[1].node, passes[1].before, 2)
  /\ Len(passes[1].after.cost_sources) > Len(passes[1].before.cost_sources)
  /\ numContacts(passes[1].after) = 1

\* ------------------------------------------------------------------------
\* C18: when request.isSatisfied(result) holds as a handler is entered, the
\* handler returns the current result.numContacts() as a normal value: no
\* traversal node is built, no model is copied, the narrow-phase solver is
\* neither called nor reconfigured, and the result is left as it was.
C18_SatisfiedOnEntryReturnsUntouched ==
  (/\ outcome \in {"running", "returned"}
   /\ isSatisfied(call.request, call.result)) =>
    /\ passes = <<>>
    /\ heap = {}
    /\ nsolver = FreshSolver
    /\ result = call.result
    /\ stack # <<>> =>
         /\ Len(stack) = 1
         /\ Top.pc = "entry"
         /\ Top.node = NoNode
    /\ outcome = "returned" =>
         /\ ret.fn = Body(call.cell)
         /\ ret.value = numContacts(call.result)

\* the generic mesh-shape handler was entered with a result that already
\* met the request, and returned
C18_Witness ==
  /\ outcome = "returned"
  /\ isSatisfied(call.request, call.result)
  /\ call.o1.kind = "BV_AABB"
  /\ call.o2.kind = "GEOM_SPHERE"
  /\ call.request.num_max_contacts < numContacts(call.result)
  /\ ret.fn = "BVHShapeCollider::collide"
  /\ ret.value = numContacts(call.result)

\* the BV types with a specialisation of BVHShapeCollider
OrientedShapeBVs == {"BV_OBB", "BV_RSS", "BV_kIOS", "BV_OBBRSS"}

\* C19: for all nine shape tags the BVH x Shape handler of OBB, RSS, kIOS
\* and OBBRSS is the oriented variant, which traverses the caller's mesh
\* with the caller's transform and copies nothing, and the handler of
\* AABB, KDOP16, KDOP18 and KDOP24 is the generic variant, which traverses a
\* private copy of the mesh with a private transform.
C19_OrientedAndGenericMeshShape ==
  /\ MatrixBuilt =>
       \A b \in BVTags, s \in ShapeTags :
         /\ collision_matrix[b][s].fn = "BVHShapeCollider::collide"
         /\ Body(collision_matrix[b][s]) =
              IF b \in OrientedShapeBVs
              THEN "orientedBVHShapeCollide"
              ELSE "BVHShapeCollider::collide"
  /\ (/\ outcome \in {"running", "returned"}
      /\ call.cell.fn = "BVHShapeCollider::collide") =>
       /\ stack # <<>> =>
            stack[1].fn =
              IF call.o1.kind \in OrientedShapeBVs
              THEN "orientedBVHShapeCollide"
              ELSE "BVHShapeCollider::collide"
       /\ call.o1.kind \in OrientedShapeBVs => heap = {}
       /\ passes # <<>> =>
            LET n == passes[1].node
            IN  IF call.o1.kind \in OrientedShapeBVs
                THEN /\ n.kind = OrientedMeshShapeNode(TypeOf(call.o1.kind))
                     /\ n.model1 = call.o1
                     /\ n.tf1 = call.tf1
                ELSE /\ n.kind = "MeshShapeCollisionTraversalNode"
                     /\ n.model1.id = "obj1_tmp"
                     /\ n.model1.bv0.frame = call.tf1.base
                     /\ n.tf1 = Identity
       /\ (/\ stack # <<>>
           /\ stack[1].fn = "BVHShapeCollider::collide"
           /\ stack[1].pc = "collide") => heap = {"obj1_tmp"}

\* an RSS mesh was traversed in place against a sphere
C19_Witness ==
  /\ outcome = "returned"
  /\ call.o1.kind = "BV_RSS"
  /\ call.o2.kind = "GEOM_SPHERE"
  /\ Len(passes) = 1
  /\ passes[1].node.kind = "MeshShapeCollisionTraversalNodeRSS"
  /\ passes[1].node.model1 = call.o1
  /\ numContacts(result) > numContacts(call.result)

\* C20: the BVH x BVH cells are populated exactly on the diagonal: the cell
\* of two BV tags holds a handler if and only if the tags are equal, and a
\* pair of meshes with different BV types meets an empty cell.
C20_MeshMeshOnlyOnDiagonal ==
  /\ MatrixBuilt =>
       \A b1 \in BVTags, b2 \in BVTags :
         /\ (collision_matrix[b1][b2] # NULL) <=> (b1 = b2)
         /\ b1 = b2 =>
              collision_matrix[b1][b2] = Handler("BVHCollide", <<TypeOf(b1)>>)
  /\ (/\ outcome # "idle"
      /\ call.o1.kind \in BVTags
      /\ call.o2.kind \in BVTags) =>
       (outcome = "Unsupported") <=> (call.o1.kind # call.o2.kind)

\* an AABB mesh against an OBB mesh was dispatched and found no handler
C20_Witness ==
  /\ outcome = "Unsupported"
  /\ call.o1.kind = "BV_AABB"
  /\ call.o2.kind = "BV_OBB"
  /\ collision_matrix["BV_AABB"]["BV_OBB"] = NULL
  /\ collision_matrix["BV_OBB"]["BV_OBB"].fn = "BVHCollide"

\* ------------------------------------------------------------------------
\* the BV types with a specialisation of BVHCollideImpl
OrientedMeshBVs == {"BV_OBB", "BV_OBBRSS", "BV_kIOS"}

\* C21: for two meshes of the same BV type the handler is the oriented
\* mesh traversal, which runs on the caller's models and transforms and
\* copies nothing, when the BV type is OBB, OBBRSS or kIOS, and the generic
\* mesh traversal, which runs on private copies of both models and of both
\* transforms, for AABB, RSS, KDOP16, KDOP18 and KDOP24.
C21_OrientedAndGenericMeshMesh ==
  /\ MatrixBuilt =>
       \A b \in BVTags :
         /\ collision_matrix[b][b].fn = "BVHCollide"
         /\ Body(collision_matrix[b][b]) =
              IF b \in OrientedMeshBVs
              THEN "orientedMeshCollide"
              ELSE "BVHCollideImpl::run"
  /\ (/\ outcome \in {"running", "returned"}
      /\ call.cell.fn = "BVHCollide") =>
       /\ stack # <<>> =>
            stack[1].fn =
              IF call.o1.kind \in OrientedMeshBVs
              THEN "orientedMeshCollide"
              ELSE "BVHCollideImpl::run"
       /\ call.o1.kind \in OrientedMeshBVs => heap = {}
       /\ passes # <<>> =>
            LET n == passes[1].node
            IN  IF call.o1.kind \in OrientedMeshBVs
                THEN /\ n.kind = OrientedMeshNode(TypeOf(call.o1.kind))
                     /\ n.model1 = call.o1 /\ n.tf1 = call.tf1
                     /\ n.model2 = call.o2 /\ n.tf2 = call.tf2
                ELSE /\ n.kind = "MeshCollisionTraversalNode"
                     /\ n.model1.id = "obj1_tmp"
                     /\ n.model2.id = "obj2_tmp"
                     /\ n.model1.bv0.frame = call.tf1.base
                     /\ n.model2.bv0.frame = call.tf2.base
                     /\ n.tf1 = Identity /\ n.tf2 = Identity
       /\ (/\ stack # <<>>
           /\ stack[1].fn = "BVHCollideImpl::run"
           /\ stack[1].pc = "collide") => heap = {"obj1_tmp", "obj2_tmp"}

\* two RSS meshes were traversed on copies of both, while an RSS mesh
\* against a shape is traversed in place
C21_Witness ==
  /\ outcome = "returned"
  /\ call.o1.kind = "BV_RSS"
  /\ call.o2.kind = "BV_RSS"
  /\ Len(passes) = 1
  /\ passes[1].node.kind = "MeshCollisionTraversalNode"
  /\ passes[1].node.model1.id = "obj1_tmp"
  /\ passes[1].node.model2.id = "obj2_tmp"
  /\ OrientedMeshShapeNode(TypeOf(call.o1.kind)) # "none"
  /\ numContacts(result) > numContacts(call.result)

\* ------------------------------------------------------------------------
\* C22: every temporary model a generic handler allocates is released
\* before the handler is left, on every exit path: a handler that has
\* returned or that was left by an error has no temporary model allocated.
C22_TemporariesReleasedOnEveryExit ==
  /\ ret # NoRet => heap = {}
  /\ outcome \in {"returned", "raised"} => heap = {}

\* the normal exits: a handler that returns, after a traversal that stopped
\* early or ran to its end, has released its temporaries
C22_ReleasedOnReturn ==
  /\ ret # NoRet => heap = {}
  /\ outcome = "returned" => heap = {}

\* ------------------------------------------------------------------------
\* C23: BVTesting of the shape-octree traversal node answers false for
\* every pair of indices, so every traversal of a shape-octree node gets to
\* leafTesting, and a ShapeOcTreeCollide call that is not satisfied on entry
\* and returns has run such a traversal.
C23_ShapeOctreeNeverPruned ==
  /\ \A i \in 0..MaxLeafHits, j \in 0..MaxLeafHits :
       BVTesting([NoNode EXCEPT !.kind = "ShapeOcTreeCollisionTraversalNode"],
                 i, j) = {FALSE}
  /\ \A k \in DOMAIN passes :
       passes[k].node.kind = "ShapeOcTreeCollisionTraversalNode" =>
         passes[k].leafTesting
  /\ (/\ outcome = "returned"
      /\ call.cell.fn = "ShapeOcTreeCollide"
      /\ ~isSatisfied(call.request, call.result)) =>
       /\ Len(passes) = 1
       /\ passes[1].node.kind = "ShapeOcTreeCollisionTraversalNode"
       /\ passes[1].leafTesting

\* a sphere against an octree got to the leaf test and found contacts
C23_Witness ==
  /\ outcome = "returned"
  /\ call.cell.fn = "ShapeOcTreeCollide"
  /\ call.o1.kind = "GEOM_SPHERE"
  /\ Len(passes) = 1
  /\ passes[1].node.kind = "ShapeOcTreeCollisionTraversalNode"
  /\ passes[1].leafTesting
  /\ numContacts(result) > numContacts(call.result)

\* ------------------------------------------------------------------------
\* bounding volume a encloses bounding volume b
EnclosesBV(a, b) == a.min <= b.min /\ b.max <= a.max

\* C24: the BV the generic fitter returns for a sequence of primitive
\* indices encloses the BV it returns for every sequence over a subset of
\* those indices, so the BV fitted over the union of two index sets
\* encloses the BV fitted over each of them (a parent fitted over all of its
\* primitives encloses the BVs of its children), and it is the BV it
\* returns for every other sequence over the same set of indices, in any
\* order and with any repetition.
C24_FitMonotoneAndOrderFree ==
  \A ty \in {"BVH_MODEL_TRIANGLES", "BVH_MODEL_POINTCLOUD"} :
    (Fitted(ty) /\ Consistent(fitted.primitive_indices)) =>
      LET p == fitted.primitive_indices
      IN  /\ fitted.bv = fit(fitter, p).bv
          /\ \A q \in PrimitiveIndices :
               /\ Range(q) \subseteq Range(p) =>
                    EnclosesBV(fitted.bv, fit(fitter, q).bv)
               /\ Range(q) = Range(p) => fit(fitter, q).bv = fitted.bv

\* a triangle model was fitted over its second and its first triangle, in
\* that order; the volume is larger than the one of the second triangle
\* alone and the same as for the two triangles in the other order
C24_Witness ==
  /\ Fitted("BVH_MODEL_TRIANGLES")
  /\ fitted.primitive_indices = <<1, 0>>
  /\ fit(fitter, <<1>>).bv # fitted.bv
  /\ EnclosesBV(fitted.bv, fit(fitter, <<1>>).bv)
  /\ fit(fitter, <<0, 1>>).bv = fitted.bv

\* ---------------------------------------------------------------------
\* C25: a set without previous positions resets prev_vertices whatever the
\* fitter held before, a deformable set included: in every instantiation
\* of the fitter (primary template, OBBd, RSSd, kIOSd, OBBRSSd) the fitter
\* then holds the arrays and the type of that set and no previous
\* positions, and a fit that follows reads no cell outside the vertex and
\* triangle arrays handed to that set, so none of the previous positions.
C25_SetResetsPrevVertices ==
  /\ fitterBV \in FitterBVs
  /\ fitted.op = "set" =>
       /\ fitter.prev_vertices = "NULL"
       /\ fitter.vertices = fitted.args.vertices
       /\ fitter.tri_indices = fitted.args.tri_indices
       /\ fitter.type = fitted.args.type
  /\ (fitted.op = "fit" /\ fitted.since.op = "set") =>
       \A r \in fitted.reads :
         r[1] \in {fitted.since.args.vertices,
                   fitted.since.args.tri_indices}

\* an OBBd fitter was set with previous positions, then set without them on
\* the second model, and a fit of its triangles has read v2 and t2
C25_Witness ==
  /\ fitterBV = "OBBd"
  /\ fitted.op = "fit"
  /\ fitted.since.op = "set"
  /\ fitted.since.before = "pv"
  /\ fitted.since.args =
       [vertices |-> "v2", tri_indices |-> "t2",
        type |-> "BVH_MODEL_TRIANGLES"]
  /\ fitted.outcome = "returned"
  /\ \E r \in fitted.reads : r[1] = "v2"
  /\ \E r \in fitted.reads : r[1] = "t2"

\* ---------------------------------------------------------------------
\* C26: after clear() the fitter holds no data and its model type is
\* unknown, in every instantiation; a fit of the generic fitter that
\* follows returns the default volume for any indices and reads no cell of
\* any array; a set after the clear leaves the fitter exactly as the same
\* set leaves a fitter that was never cleared, so a fit after it is the fit
\* of the arrays of that set.
C26_ClearThenFitThenSet ==
  /\ fitted.op = "clear" =>
       /\ fitter = ClearedFitter
       /\ \A q \in PrimitiveIndices :
            fit(fitter, q) = [bv |-> EmptyBV, reads |-> {}, oob |-> FALSE]
       /\ \A va \in VertexArrays, ta \in TriangleArrays, ty \in ModelTypes :
            \A f \in FreshFitters :
              set(fitterBV, fitter, va, ta, ty) = set(fitterBV, f, va, ta, ty)
  /\ (fitterBV = "BV" /\ fitted.op = "fit" /\ fitted.since.op = "clear") =>
       /\ fitted.outcome = "returned"
       /\ fitted.bv = EmptyBV
       /\ fitted.reads = {}
       /\ ~fitted.oob
  /\ (fitterBV = "BV" /\ fitted.op = "fit" /\ fitted.since.op = "set"
        /\ fitted.since.before = "NULL" /\ fitted.outcome = "returned") =>
       fitted.bv =
         fit([vertices |-> fitted.since.args.vertices,
              prev_vertices |-> "NULL",
              tri_indices |-> fitted.since.args.tri_indices,
              type |-> fitted.since.args.type],
             fitted.primitive_indices).bv

\* a generic fitter was cleared and a fit of two indices came back with the
\* default volume
C26_Witness ==
  /\ fitterBV = "BV"
  /\ fitted.op = "fit"
  /\ fitted.since.op = "clear"
  /\ Len(fitted.primitive_indices) = MaxPrims
  /\ fitted.outcome = "returned"
  /\ fitted.bv = EmptyBV
  /\ fitter = ClearedFitter

\* ---------------------------------------------------------------------
\* C27: while ShapeShapeCollide traverses, and when it is about to return,
\* the cached-guess mode of the narrow-phase solver is the
\* enable_cached_gjk_guess of the request, so a request without the flag
\* runs the solver with cached guesses disabled.
C27_SolverModeFollowsRequest ==
  (stack # <<>> /\ Top.fn = "ShapeShapeCollide"
     /\ Top.pc \in {"collide", "after"}) =>
    nsolver.enable_cached_guess = Top.request.enable_cached_gjk_guess

\* the part of C27 about the result: a ShapeShapeCollide called without the
\* flag leaves result.cached_gjk_guess as it found it
C27_ResultGuessLeftUnchanged ==
  /\ \A i \in 1..Len(passes) :
       (passes[i].fn = "ShapeShapeCollide"
          /\ ~passes[i].node.request.enable_cached_gjk_guess) =>
         passes[i].after.cached_gjk_guess = passes[i].before.cached_gjk_guess
  /\ (stack # <<>> /\ Top.fn = "ShapeShapeCollide"
        /\ ~Top.request.enable_cached_gjk_guess /\ passes # <<>>) =>
       result.cached_gjk_guess = passes[1].before.cached_gjk_guess

\* the geometry class a tag denotes
GeometryType(t) ==
  IF t \in BVTags THEN <<"BVHModel", TypeOf(t)>> ELSE <<TypeOf(t)>>

\* ---------------------------------------------------------------------
\* C28: every populated cell is type-consistent with its indices: the
\* handler in collision_matrix[t1][t2] casts its first operand to the
\* geometry type the tag t1 denotes and its second operand to the type t2
\* denotes (a shape type, the BVHModel of the BV type of the tag, or
\* OcTree), and a dispatched handler is handed geometries of those types.
C28_CellsTypeConsistent ==
  /\ MatrixBuilt =>
       \A t1 \in Tags, t2 \in Tags :
         collision_matrix[t1][t2] # NULL =>
           StaticCasts(collision_matrix[t1][t2]) =
             <<GeometryType(t1), GeometryType(t2)>>
  /\ (outcome = "running" /\ call # NoCall) =>
       StaticCasts(call.cell) =
         <<GeometryType(call.o1.kind), GeometryType(call.o2.kind)>>

\* the build has octomap, the matrix is complete, and the octree-vs-sphere
\* and the OBB-mesh-vs-octree cells hold handlers casting to those types
C28_Witness ==
  /\ MatrixBuilt
  /\ have_octomap
  /\ StaticCasts(collision_matrix["GEOM_OCTREE"]["GEOM_SPHERE"]) =
       <<<<"OcTree<S>">>, <<"Sphere<S>">>>>
  /\ StaticCasts(collision_matrix["BV_OBB"]["GEOM_OCTREE"]) =
       <<<<"BVHModel", "OBB<S>">>, <<"OcTree<S>">>>>
  /\ collision_matrix["GEOM_SPHERE"]["BV_OBB"] = NULL

\* ---------------------------------------------------------------------
\* C29: once ShapeOcTreeCollide has initialised its node, leafTesting hands
\* the solver the octree (model2) with tf2 and the shape (model1) with tf1,
\* each geometry with its own transform, together with the request the
\* node copied at initialize and the result of the caller: what the
\* traversal adds is added to that result, for this shape, this octree and
\* these transforms; initialize returns true.
C29_LeafTestingForwardsUncrossed ==
  (stack # <<>> /\ Top.fn = "ShapeOcTreeCollide"
     /\ Top.pc \in {"collide", "after"}) =>
    LET init == ShapeOcTree_initialize(Top.o1, Top.tf1, Top.o2, Top.tf2,
                                       Top.request)
        a == ShapeOcTree_leafTesting(Top.node)
    IN  /\ init.ret = TRUE
        /\ Top.node = init.node
        /\ a.tree = Top.o2 /\ a.tf1 = Top.tf2
        /\ a.tree.kind = "GEOM_OCTREE"
        /\ a.s = Top.o1 /\ a.tf2 = Top.tf1
        /\ a.s.kind # "GEOM_OCTREE"
        /\ a.request = Top.request
        /\ Top.pc = "after" =>
             LET pass == passes[Len(passes)]
             IN  /\ pass.node = Top.node
                 /\ result = pass.after
                 /\ \A k \in (Len(pass.before.cost_sources) + 1)
                               ..Len(result.cost_sources) :
                      /\ result.cost_sources[k].o1 = Top.o1.id
                      /\ result.cost_sources[k].tf1 = Top.tf1
                      /\ result.cost_sources[k].o2 = Top.o2.id
                      /\ result.cost_sources[k].tf2 = Top.tf2

\* a sphere was dispatched against an octree, the traversal is over, and it
\* has added a cost source to the caller's result
C29_Witness ==
  /\ Len(stack) = 1
  /\ Top.fn = "ShapeOcTreeCollide"
  /\ Top.pc = "after"
  /\ call.o1.kind = "GEOM_SPHERE"
  /\ call.o2.kind = "GEOM_OCTREE"
  /\ Top.tf1 # Top.tf2
  /\ Len(passes) = 1
  /\ Len(result.cost_sources) > Len(passes[1].before.cost_sources)
  /\ result.cost_sources[Len(result.cost_sources)].tf1 = call.tf1
  /\ result.cost_sources[Len(result.cost_sources)].o2 = "GEOM_OCTREE"

\* ---------------------------------------------------------------------
\* C30: in the approximate-cost pass the box stands where the mesh stood
\* and the other operand keeps its place and its transform: the handlers
\* with the mesh first (mesh against shape, mesh against octree) dispatch
\* (box, box_tf, o2, tf2), the handler with the octree first dispatches
\* (o1, tf1, box, box_tf), to a handler that casts its operands to the
\* types in that order.
C30_CostPassKeepsOperandOrder ==
  Len(stack) = 2 =>
    LET f == stack[2]
    IN  /\ call.cell.fn \in TwoPassCells
        /\ call.cell.fn \in {"BVHShapeCollider::collide", "BVHOcTreeCollide"}
             => /\ f.o1.id = "box"
                /\ f.tf1.bv = call.o1.bv0
                /\ f.o2 = call.o2
                /\ f.tf2 = call.tf2
                /\ StaticCasts([fn |-> f.fn, targs |-> f.targs]) =
                     <<<<"Box<S>">>, GeometryType(call.o2.kind)>>
        /\ call.cell.fn = "OcTreeBVHCollide"
             => /\ f.o1 = call.o1
                /\ f.tf1 = call.tf1
                /\ f.o2.id = "box"
                /\ f.tf2.bv = call.o2.bv0
                /\ StaticCasts([fn |-> f.fn, targs |-> f.targs]) =
                     <<GeometryType(call.o1.kind), <<"Box<S>">>>>

\* an octree-against-mesh call is in its cost pass, the octree first with
\* its own transform and the box of the mesh second
C30_Witness ==
  /\ Len(stack) = 2
  /\ call.cell.fn = "OcTreeBVHCollide"
  /\ stack[2].fn = "OcTreeShapeCollide"
  /\ stack[2].o1.kind = "GEOM_OCTREE"
  /\ stack[2].tf1 = call.tf1
  /\ stack[2].o2.id = "box"
  /\ stack[2].tf2 # call.tf2
  /\ stack[2].pc = "after"

====
